---- MODULE Spec2Model ----
(***************************************************************************)
(* Keyword expansion, stage classification, competitiveness analysis and   *)
(* result persistence of apps/keyword/total_gold.py (and the classifier    *)
(* and sink it shares with apps/keyword/gold.py), and the usage cache of   *)
(* apps/keyword/expand.py.                                                 *)
(*                                                                         *)
(* The module holds several specifications over one set of variables:      *)
(*   SpecExpand   expand_keywords_recursive, one action per loop iteration *)
(*   LiveExpand   SpecExpand with the fairness of a sequential program     *)
(*   SpecStage    NaverAdsClient.get_keyword_stage applied to drawn inputs  *)
(*   SpecSave     a sequence of NaverAdsClient.save_to_excel calls on one    *)
(*                store                                                     *)
(*   SpecPipe     main in basic mode from the analysis on:                  *)
(*                get_keyword_analysis_with_save, the filter and the saves, *)
(*                with operator interrupts                                  *)
(*   SpecAnalyze  get_search_volume, then get_keyword_analysis_with_save   *)
(*                and get_keyword_analysis on the same list and lookup     *)
(*   SpecBackground  background_auto_mode: the main thread, the daemon     *)
(*                worker thread and its cycles                             *)
(*   SpecCache    runs of expand.py's collect_keywords_for_subject on one  *)
(*                usage cache                                              *)
(*   SpecFilter   NaverAdsClient.filter_keywords_by_target_stages applied  *)
(*                to drawn inputs                                          *)
(* Each specification leaves the variables of the others at their idle     *)
(* values.                                                                 *)
(***************************************************************************)
EXTENDS Integers, Sequences, FiniteSets, TLC

VARIABLES
    \* ---- expand_keywords_recursive (total_gold.py:146-210) ----
    seed_keywords,              \* the argument: an ordered list of keywords
    max_keywords,               \* the argument: the pool limit
    processed_keywords,         \* set of keywords already queried
    all_keywords,               \* the keyword pool
    queue,                      \* deque of <<keyword, original_seed>>
    total_processed,            \* number of keywords processed
    consecutive_empty_results,  \* empty oracle responses in a row
    epc,                        \* "idle" | "loop" | "returned" | "raised"
    exit_by,                    \* why the loop was left
    oracle_calls,               \* keyword -> calls of get_naver_autocomplete
    last_response,              \* the oracle's most recent response
    as_scripted,                \* every response so far was ScenarioOracle's
    \* ---- NaverAdsClient.get_keyword_stage (total_gold.py:471-498) ----
    blog_stages_config,         \* self.blog_stages_config (config/keyword.yaml)
    doc_count,                  \* the argument doc_count
    total_search,               \* the argument total_search
    keyword_stage,              \* the value returned
    spc,                        \* "idle" | "ready" | "done"
    \* ---- NaverAdsClient.save_to_excel (total_gold.py:769-831) ----
    MODE,                       \* the module constant MODE (total_gold.py:74)
    excel,                      \* static/gold_keyword/<subject>.xlsx
    save_count,                 \* save_to_excel calls made so far
    save_incoming,              \* the analysis_result of the latest call
    save_before,                \* the file as the latest call found it
    save_loaded,                \* the latest call read an existing table
    save_outcome,               \* "none" | "saved" | "raised"
    \* ---- main and get_keyword_analysis_with_save (total_gold.py:567-674, 1082-1215) ----
    keywords,                   \* the list handed to the analysis
    search_volume_result,       \* cleaned keyword -> volumes, as the oracle gave them
    volume_batch,               \* keywords already sent to the volume oracle
    analysis_result,            \* keyword -> stats
    global_i,                   \* keywords analysed so far
    ppc,                        \* "idle" | "volume" | "analyze" | "intermediate_save"
                                \*   | "after_analysis" | "exit" | "analyze_strict" | "done"
    main_has_result,            \* main's analysis_result is no longer None
    exit_status,                \* what main returned; -1 while it runs
    interrupted_in,             \* where the interrupt that ended the run arrived
    interrupts_in_analysis,     \* interrupts delivered inside get_keyword_analysis_with_save
    final_save,                 \* outcome of the save that ends the run: the one made
                                \*   on the interrupt, or main's final one
    intermediate_saves,         \* one record per _save_intermediate_results call
    \* ---- get_keyword_analysis beside get_keyword_analysis_with_save (total_gold.py:402-641) ----
    strict_result,              \* analysis_result of get_keyword_analysis
    volume_calls,               \* the batches passed to _get_search_volume_batch, in call order
    blog_oracle,                \* keyword -> what the blog search answers for it
    blog_calls,                 \* keywords get_keyword_analysis_with_save asked get_blog_count for
    strict_blog_calls,          \* keywords get_keyword_analysis asked get_blog_count for
    \* ---- background_auto_mode and background_auto_worker (total_gold.py:1024-1075) ----
    main_thread,                \* "idle" | "start" | "join" | "returned" | "exited"
    worker_thread,              \* "idle" | "loop" | "run" | "sleep" | "retry_sleep" | "killed"
    cycle_count,                \* cycle_count of the worker
    selected_subject,           \* the subject of the current cycle
    run_pc,                     \* where run_single_analysis is
    success,                    \* what the latest run_single_analysis returned
    runs_in_progress,           \* run_single_analysis calls that have not returned
    run_starters,               \* the threads that have called run_single_analysis
    waits_completed,            \* time.sleep calls of the worker loop that have returned
    run_analysed,               \* keywords the run's get_keyword_analysis has computed metrics for
    run_targets,                \* how many of them have a tier of TARGET_STAGES
    run_stored,                 \* how many of them the run has written to the store
    exit_during,                \* the step the run was in when the process exited
    \* ---- collect_keywords_for_subject and the usage cache (expand.py:47-327) ----
    cache_file,                 \* cache/expand_keyword_cache.json: keyword -> usage count
    cache,                      \* the cache dictionary of the run in progress
    unused_seeds,               \* the seeds the run found available, in order
    max_seeds,                  \* the argument max_seeds
    processed_count,            \* processed_count of the run
    success_count,              \* success_count of the run
    results,                    \* the seeds that are keys of `results` in the run
    cpc,                        \* "idle" | "loop"
    run_count,                  \* runs of collect_keywords_for_subject that returned
    recorded_success,           \* seeds whose successful expansion was recorded and saved
    \* ---- NaverAdsClient.filter_keywords_by_target_stages (total_gold.py:747-767) ----
    target_stages,              \* the argument target_stages
    filtered_result,            \* the mapping returned
    fpc                         \* "idle" | "ready" | "done"

expandVars == <<seed_keywords, max_keywords, processed_keywords, all_keywords,
                queue, total_processed, consecutive_empty_results, epc,
                exit_by, oracle_calls, last_response, as_scripted>>

stageVars == <<blog_stages_config, doc_count, total_search, keyword_stage, spc>>

saveVars == <<MODE, excel, save_count, save_incoming, save_before, save_loaded,
              save_outcome>>

pipeVars == <<keywords, search_volume_result, volume_batch, analysis_result,
              global_i, ppc, main_has_result, exit_status, interrupted_in,
              interrupts_in_analysis, final_save, intermediate_saves>>

analyzeVars == <<strict_result, volume_calls, blog_oracle, blog_calls, strict_blog_calls>>

runVars == <<run_analysed, run_targets, run_stored, exit_during>>

backgroundVars == <<main_thread, worker_thread, cycle_count, selected_subject, run_pc,
                    success, runs_in_progress, run_starters, waits_completed, runVars>>

cacheVars == <<cache_file, cache, unused_seeds, max_seeds, processed_count, success_count,
               results, cpc, run_count, recorded_success>>

filterVars == <<target_stages, filtered_result, fpc>>

vars == <<expandVars, stageVars, saveVars, pipeVars, analyzeVars, backgroundVars, cacheVars,
          filterVars>>

notExpandVars == <<stageVars, saveVars, pipeVars, analyzeVars, backgroundVars, cacheVars,
    filterVars>>
notStageVars == <<expandVars, saveVars, pipeVars, analyzeVars, backgroundVars, cacheVars,
    filterVars>>
notSaveVars == <<expandVars, stageVars, pipeVars, analyzeVars, backgroundVars, cacheVars,
    filterVars>>
notBackgroundVars == <<expandVars, stageVars, saveVars, pipeVars, analyzeVars, cacheVars,
    filterVars>>
notCacheVars == <<expandVars, stageVars, saveVars, pipeVars, analyzeVars, backgroundVars,
    filterVars>>
\* the pipeline reads blog_stages_config and MODE and writes excel
notPipeVars == <<expandVars, doc_count, total_search, keyword_stage, spc,
                 save_count, save_incoming, save_before, save_loaded, save_outcome,
                 analyzeVars, backgroundVars, cacheVars, filterVars>>
\* the two analyzers use the variables of the analysis and leave those of main
notAnalyzeVars == <<expandVars, stageVars, saveVars, main_has_result, exit_status,
                    interrupted_in, interrupts_in_analysis, final_save,
                    intermediate_saves, backgroundVars,
                    cacheVars, filterVars>>

----------------------------------------------------------------------------
(* Bounds of the model *)

\* max_keywords is drawn from 1..MaxPool for the short seed lists
MaxPool == 4
\* the pool limit used with the long seed list, large enough for the
\* empty-result breaker to trip
LargePool == 52
\* seed lists have up to MaxSeeds entries (duplicates allowed) ...
MaxSeeds == 3
\* ... or are the one long list 1..NumLongSeeds
NumLongSeeds == 51
\* an oracle response carries at most MaxBranch keywords
MaxBranch == 2
\* already known keywords an oracle response may repeat: those up to KnownWindow
KnownWindow == 2

\* stage tables carry at most MaxConfigured of the five stages
MaxConfigured == 2
\* document counts and search volumes are drawn from 0..MaxCount
MaxCount == 3

\* a store receives at most MaxSaves save_to_excel calls
MaxSaves == 2

\* the analysis receives at most MaxAnalyzed keywords
MaxAnalyzed == 3

\* the two analyzers are compared on lists of up to MaxListed keywords
MaxListed == 6

\* the background worker is followed for MaxCycles cycles
MaxCycles == 3

\* a run of the background worker analyses up to MaxRunKeywords keywords
MaxRunKeywords == 2

\* collect_keywords_for_subject is run up to MaxRuns times on one cache
MaxRuns == 3
\* its argument max_seeds is drawn from 1..MaxWanted
MaxWanted == 2
\* the length of the long keyword list of the pipeline: one batch of
\* batch_size keywords and one keyword more
NumLongKeywords == 21

(* Program constants *)
max_empty_tolerance == 50
batch_size == 20

----------------------------------------------------------------------------
(* Helpers *)

Range(s) == {s[i] : i \in 1..Len(s)}

NoDup(s) == \A i, j \in 1..Len(s) : i # j => s[i] # s[j]

SeqsUpTo(S, n) == UNION {[1..m -> S] : m \in 0..n}

----------------------------------------------------------------------------
(* Idle values: what a specification leaves the other parts at *)

EmptyDict == [x \in {} |-> 0]

\* a set as a list, in some order (the items of a dict, list(a_set))
RECURSIVE SetToSeq(_)
SetToSeq(S) ==
    IF S = {} THEN <<>>
    ELSE LET x == CHOOSE y \in S : TRUE IN <<x>> \o SetToSeq(S \ {x})

ExpandIdle ==
    /\ seed_keywords = <<>>
    /\ max_keywords = 0
    /\ processed_keywords = {}
    /\ all_keywords = {}
    /\ queue = <<>>
    /\ total_processed = 0
    /\ consecutive_empty_results = 0
    /\ epc = "idle"
    /\ exit_by = "none"
    /\ oracle_calls = EmptyDict
    /\ last_response = <<>>
    /\ as_scripted = TRUE

StageIdle ==
    /\ blog_stages_config = EmptyDict
    /\ doc_count = 0
    /\ total_search = 0
    /\ keyword_stage = 0
    /\ spc = "idle"

\* no file at the path (os.path.exists is false, total_gold.py:785)
NoFile == [exists |-> FALSE, rows |-> <<>>]

SaveIdle ==
    /\ MODE = "BASIC"
    /\ excel = NoFile
    /\ save_count = 0
    /\ save_incoming = EmptyDict
    /\ save_before = NoFile
    /\ save_loaded = FALSE
    /\ save_outcome = "none"

PipeIdle ==
    /\ keywords = <<>>
    /\ search_volume_result = EmptyDict
    /\ volume_batch = 0
    /\ analysis_result = EmptyDict
    /\ global_i = 0
    /\ ppc = "idle"
    /\ main_has_result = FALSE
    /\ exit_status = -1
    /\ interrupted_in = "none"
    /\ interrupts_in_analysis = 0
    /\ final_save = "none"
    /\ intermediate_saves = <<>>

MainIdle ==
    /\ main_has_result = FALSE
    /\ exit_status = -1
    /\ interrupted_in = "none"
    /\ interrupts_in_analysis = 0
    /\ final_save = "none"
    /\ intermediate_saves = <<>>

AnalyzeIdle ==
    /\ strict_result = EmptyDict
    /\ volume_calls = <<>>
    /\ blog_oracle = EmptyDict
    /\ blog_calls = <<>>
    /\ strict_blog_calls = <<>>

BackgroundIdle ==
    /\ main_thread = "idle"
    /\ worker_thread = "idle"
    /\ cycle_count = 0
    /\ selected_subject = "none"
    /\ run_pc = "none"
    /\ success = FALSE
    /\ runs_in_progress = 0
    /\ run_starters = {}
    /\ waits_completed = 0
    /\ run_analysed = 0
    /\ run_targets = 0
    /\ run_stored = 0
    /\ exit_during = "none"

FilterIdle ==
    /\ target_stages = {}
    /\ filtered_result = EmptyDict
    /\ fpc = "idle"

CacheIdle ==
    /\ cache_file = EmptyDict
    /\ cache = EmptyDict
    /\ unused_seeds = <<>>
    /\ max_seeds = 0
    /\ processed_count = 0
    /\ success_count = 0
    /\ results = {}
    /\ cpc = "idle"
    /\ run_count = 0
    /\ recorded_success = {}

----------------------------------------------------------------------------
(* expand_keywords_recursive *)

\* Keywords are opaque values compared only for equality: they are numbered,
\* and a keyword never seen before takes the next unused number.
FirstOccurrencesInOrder(s) ==
    \A i \in 1..Len(s) :
        \/ \E j \in 1..(i-1) : s[j] = s[i]
        \/ s[i] = Cardinality({s[j] : j \in 1..(i-1)}) + 1

ShortSeedLists ==
    {s \in SeqsUpTo(1..MaxSeeds, MaxSeeds) : Len(s) >= 1 /\ FirstOccurrencesInOrder(s)}

LongSeedList == [i \in 1..NumLongSeeds |-> i]

\* the worked example of the expansion: one seed, an oracle that answers the
\* seed with two new keywords and every other keyword with nothing, and a pool
\* limit of 10.  Keywords are numbered in order of first appearance.
ScenarioInput == <<(<<1>>), 10>>
ScenarioOracle(keyword) == IF keyword = 1 THEN <<2, 3>> ELSE <<>>

\* the arguments of a call: a short seed list with a small limit, the long
\* seed list with the large limit, or the worked example
ExpandInputs ==
    (ShortSeedLists \X (1..MaxPool))
        \cup {<<LongSeedList, LargePool>>, ScenarioInput}

\* What get_naver_autocomplete can return for `keyword`: a list without the
\* keyword itself and without duplicates (total_gold.py:136), or the empty
\* list (no suggestion, or the request failed: total_gold.py:141-143).
Responses(keyword) ==
    LET n == Cardinality(all_keywords)
        known == {k \in all_keywords : k <= KnownWindow}
        fresh == (n+1)..(n+MaxBranch)
        InOrder(s) == \A i \in 1..Len(s) : s[i] \in fresh =>
                          s[i] = n + 1 + Cardinality({j \in 1..(i-1) : s[j] \in fresh})
    IN {s \in SeqsUpTo((known \cup fresh) \ {keyword}, MaxBranch) : NoDup(s) /\ InOrder(s)}

\* queue.popleft() leaves the rest of the deque (total_gold.py:167)
PopLeftStuck(q) == q
PopLeft(q) == Tail(q)

\* `if current_keyword in processed_keywords: continue` (total_gold.py:170)
AlreadyProcessedNever(keyword, processed) == FALSE
AlreadyProcessed(keyword, processed) == keyword \in processed

\* the while condition (total_gold.py:166)
LoopCondition == queue # <<>> /\ Cardinality(all_keywords) < max_keywords

\* a for loop that adds the new keywords to the pool and enqueues none
AddRelatedUnqueued(related, i, pool, q, seed) == <<pool \cup Range(related), q>>

\* the for loop over related_keywords (total_gold.py:184-191): the pool and
\* the queue after the first i keywords of the response
RECURSIVE AddRelated(_, _, _, _, _)
AddRelated(related, i, pool, q, seed) ==
    IF i > Len(related) THEN <<pool, q>>
    ELSE LET kw == related[i]
         IN IF kw \notin pool
              THEN LET pool2 == pool \cup {kw}
                       q2 == IF Cardinality(pool2) < max_keywords
                               THEN Append(q, <<kw, seed>>) ELSE q
                   IN AddRelated(related, i + 1, pool2, q2, seed)
              ELSE AddRelated(related, i + 1, pool, q, seed)

\* `all_keywords = set(seed_keywords)` (total_gold.py:151)
InitialPoolEmpty(seeds) == {}
InitialPool(seeds) == Range(seeds)

\* the seeds enqueued as (seed, seed) pairs (total_gold.py:157-158)
InitialQueue(seeds) == [i \in 1..Len(seeds) |-> <<seeds[i], seeds[i]>>]

InitExpand ==
    /\ \E input \in ExpandInputs :
          seed_keywords = input[1] /\ max_keywords = input[2]
    /\ processed_keywords = {}
    /\ all_keywords = InitialPool(seed_keywords)
    /\ queue = InitialQueue(seed_keywords)
    /\ total_processed = 0
    /\ consecutive_empty_results = 0
    /\ epc = "loop"
    /\ exit_by = "none"
    /\ oracle_calls = EmptyDict
    /\ last_response = <<>>
    /\ as_scripted = TRUE
    /\ StageIdle
    /\ SaveIdle
    /\ PipeIdle
    /\ AnalyzeIdle
    /\ BackgroundIdle
    /\ FilterIdle
    /\ CacheIdle

\* `consecutive_empty_results = 0` after `if related_keywords:` and
\* `consecutive_empty_results += 1` in its else branch (total_gold.py:180-193)
NextEmptyCountNoReset(related, count) == IF related # <<>> THEN count ELSE count + 1
NextEmptyCount(related, count) == IF related # <<>> THEN 0 ELSE count + 1

\* how an iteration ends (total_gold.py:195-208): the breaker's break, the
\* `except KeyboardInterrupt: break` around the pause, the break on a full
\* pool, or the next iteration
AfterIterationInterruptRaised(tripped, interrupted, full) ==
    IF tripped THEN "returned"
    ELSE IF interrupted THEN "raised"
    ELSE IF full THEN "returned" ELSE "loop"
AfterIteration(tripped, interrupted, full) ==
    IF tripped \/ interrupted \/ full THEN "returned" ELSE "loop"

CountCall(calls, k) ==
    IF k \in DOMAIN calls THEN [calls EXCEPT ![k] = @ + 1]
    ELSE [x \in DOMAIN calls \cup {k} |-> IF x = k THEN 1 ELSE calls[x]]

\* the loop condition fails: fall through to `return list(all_keywords)`
ExpandLoopExit ==
    /\ epc = "loop"
    /\ ~LoopCondition
    /\ epc' = "returned"
    /\ exit_by' = IF queue = <<>> THEN "queue_empty" ELSE "pool_full"
    /\ UNCHANGED <<seed_keywords, max_keywords, processed_keywords, all_keywords,
                   queue, total_processed, consecutive_empty_results,
                   oracle_calls, last_response, as_scripted>>
    /\ UNCHANGED notExpandVars

\* an iteration that dequeues an already processed keyword (total_gold.py:167-171)
ExpandSkip ==
    /\ epc = "loop"
    /\ LoopCondition
    /\ AlreadyProcessed(Head(queue)[1], processed_keywords)
    /\ queue' = PopLeft(queue)
    /\ UNCHANGED <<seed_keywords, max_keywords, processed_keywords, all_keywords,
                   total_processed, consecutive_empty_results, epc, exit_by,
                   oracle_calls, last_response, as_scripted>>
    /\ UNCHANGED notExpandVars

\* an iteration that queries the oracle (total_gold.py:167-208).
\* interrupted: a KeyboardInterrupt arrives during the pause of line 202.
ExpandQuery ==
    /\ epc = "loop"
    /\ LoopCondition
    /\ ~AlreadyProcessed(Head(queue)[1], processed_keywords)
    /\ \E related_keywords \in Responses(Head(queue)[1]), interrupted \in BOOLEAN :
        LET current_keyword == Head(queue)[1]
            original_seed == Head(queue)[2]
            popped == PopLeft(queue)
            added == AddRelated(related_keywords, 1, all_keywords, popped, original_seed)
            pool2 == IF related_keywords # <<>> THEN added[1] ELSE all_keywords
            queue2 == IF related_keywords # <<>> THEN added[2] ELSE popped
            empties == NextEmptyCount(related_keywords, consecutive_empty_results)
            tripped == related_keywords = <<>> /\ empties >= max_empty_tolerance
            paused == ~tripped /\ queue2 # <<>>
            full == Cardinality(pool2) >= max_keywords
        IN /\ interrupted => paused
           /\ processed_keywords' = processed_keywords \cup {current_keyword}
           /\ total_processed' = total_processed + 1
           /\ oracle_calls' = CountCall(oracle_calls, current_keyword)
           /\ last_response' = related_keywords
           /\ as_scripted' = (as_scripted /\ related_keywords = ScenarioOracle(current_keyword))
           /\ all_keywords' = pool2
           /\ queue' = queue2
           /\ consecutive_empty_results' = empties
           /\ epc' = AfterIteration(tripped, interrupted, full)
           /\ exit_by' = IF tripped THEN "circuit_breaker"
                         ELSE IF interrupted THEN "interrupt_in_pause"
                         ELSE IF full THEN "pool_full"
                         ELSE "none"
    /\ UNCHANGED <<seed_keywords, max_keywords>>
    /\ UNCHANGED notExpandVars

\* a KeyboardInterrupt arrives while get_naver_autocomplete is running: its
\* `except Exception` (total_gold.py:141) does not catch it and
\* expand_keywords_recursive has no handler around line 177, so it propagates.
ExpandInterruptedInCall ==
    /\ epc = "loop"
    /\ LoopCondition
    /\ ~AlreadyProcessed(Head(queue)[1], processed_keywords)
    /\ queue' = PopLeft(queue)
    /\ processed_keywords' = processed_keywords \cup {Head(queue)[1]}
    /\ total_processed' = total_processed + 1
    /\ oracle_calls' = CountCall(oracle_calls, Head(queue)[1])
    /\ epc' = "raised"
    /\ exit_by' = "interrupt_raised"
    /\ UNCHANGED <<seed_keywords, max_keywords, all_keywords,
                   consecutive_empty_results, last_response, as_scripted>>
    /\ UNCHANGED notExpandVars

\* `return list(all_keywords)` (total_gold.py:210): the pool as a list without
\* repetition; the order of a set's items is not fixed by the language, the
\* numbered keywords are listed in ascending order here
PoolAsList(pool) ==
    IF pool = {} THEN <<>>
    ELSE LET last == CHOOSE x \in pool : \A y \in pool : y <= x
             IsInPool(x) == x \in pool
         IN SelectSeq([i \in 1..last |-> i], IsInPool)

\* main after expand_keywords_recursive (total_gold.py:1110-1134, 1176-1194):
\* a KeyboardInterrupt that left the expansion reaches main's handler, which
\* has no analysis_result to save and returns 1; an empty pool returns 1;
\* otherwise the pool, as a list, is handed to get_keyword_analysis_with_save.
MainAfterExpand ==
    /\ epc \in {"returned", "raised"}
    /\ ppc = "idle"
    /\ IF epc = "raised"
         THEN /\ ppc' = "exit"
              /\ exit_status' = 1
              /\ interrupted_in' = "expand"
              /\ keywords' = keywords
         ELSE IF all_keywords = {}
         THEN /\ ppc' = "exit"
              /\ exit_status' = 1
              /\ UNCHANGED <<interrupted_in, keywords>>
         ELSE /\ ppc' = "volume"
              /\ keywords' = PoolAsList(all_keywords)
              /\ UNCHANGED <<interrupted_in, exit_status>>
    /\ UNCHANGED <<search_volume_result, volume_batch, analysis_result, global_i,
                   main_has_result, interrupts_in_analysis, final_save,
                   intermediate_saves>>
    /\ UNCHANGED <<expandVars, stageVars, saveVars, analyzeVars, backgroundVars,
                   cacheVars, filterVars>>

NextExpand ==
    \/ ExpandLoopExit
    \/ ExpandSkip
    \/ ExpandQuery
    \/ ExpandInterruptedInCall
    \/ MainAfterExpand

SpecExpand == InitExpand /\ [][NextExpand]_vars

\* a sequential program keeps executing: the loop takes its next step
LiveExpand == SpecExpand /\ WF_vars(NextExpand)

----------------------------------------------------------------------------
(* NaverAdsClient.get_keyword_stage *)

\* str(stage_num) for stage_num in 1..5 (total_gold.py:478)
StageKey(stage_num) == <<"1", "2", "3", "4", "5">>[stage_num]

StageKeys == {StageKey(n) : n \in 1..5}

\* `doc_count <= stage_config.get('D_max', float('inf'))` (total_gold.py:481,486)
DocWithin(stage_config, d) ==
    "D_max" \in DOMAIN stage_config => d <= stage_config["D_max"]

\* `stage_config.get('S_min', 0) <= total_search` (total_gold.py:482,486)
SearchAtLeastMin(stage_config, s) ==
    (IF "S_min" \in DOMAIN stage_config THEN stage_config["S_min"] ELSE 0) <= s

\* `total_search <= stage_config.get('S_max', float('inf'))` (total_gold.py:483,486)
SearchWithin(stage_config, s) ==
    "S_max" \in DOMAIN stage_config => s <= stage_config["S_max"]

\* the base condition of a stage (total_gold.py:486)
BaseCondition(stage_config, d, s) ==
    /\ DocWithin(stage_config, d)
    /\ SearchAtLeastMin(stage_config, s)
    /\ SearchWithin(stage_config, s)

\* stage 1 needs the base condition only (total_gold.py:488-490)
NeedsVolumeCheckAlways(stage_num) == TRUE
NeedsVolumeCheck(stage_num) == stage_num # 1

\* `total_search >= doc_count` (total_gold.py:493)
VolumeCheckSkipped(d, s) == TRUE
VolumeCheckReversed(d, s) == d >= s
VolumeCheck(d, s) == s >= d

\* a scan that gives up at the first stage without a configured rule
RECURSIVE ScanStagesStopAtGap(_, _, _, _)
ScanStagesStopAtGap(stages, stage_num, d, s) ==
    IF stage_num > 5 \/ StageKey(stage_num) \notin DOMAIN stages THEN 0
    ELSE LET stage_config == stages[StageKey(stage_num)]
         IN IF BaseCondition(stage_config, d, s)
                  /\ (NeedsVolumeCheck(stage_num) => VolumeCheck(d, s))
              THEN stage_num
              ELSE ScanStagesStopAtGap(stages, stage_num + 1, d, s)

\* the scan `for stage_num in range(1, 6)` from stage_num on (total_gold.py:477-498)
RECURSIVE ScanStages(_, _, _, _)
ScanStages(stages, stage_num, d, s) ==
    IF stage_num > 5 THEN 0
    ELSE IF StageKey(stage_num) \notin DOMAIN stages
           THEN ScanStages(stages, stage_num + 1, d, s)
    ELSE LET stage_config == stages[StageKey(stage_num)]
         IN IF BaseCondition(stage_config, d, s)
              THEN IF ~NeedsVolumeCheck(stage_num) THEN stage_num
                   ELSE IF VolumeCheck(d, s) THEN stage_num
                   ELSE ScanStages(stages, stage_num + 1, d, s)
              ELSE ScanStages(stages, stage_num + 1, d, s)

\* get_keyword_stage (total_gold.py:471-498; gold.py:200-236 is the same code)
get_keyword_stage_default_one(config, d, s) ==
    IF config = EmptyDict \/ "blog_stages" \notin DOMAIN config THEN 1
    ELSE ScanStages(config["blog_stages"], 1, d, s)
get_keyword_stage(config, d, s) ==
    IF config = EmptyDict \/ "blog_stages" \notin DOMAIN config THEN 0
    ELSE ScanStages(config["blog_stages"], 1, d, s)

\* The rules a stage can carry: each of D_max, S_min, S_max present or absent
RuleKeyValues == [D_max |-> {1, 2}, S_min |-> {1}, S_max |-> {2}]

RuleOptions ==
    UNION {[keys -> UNION {RuleKeyValues[k] : k \in keys}] : keys \in SUBSET {"D_max", "S_min", "S_max"}}

StageRules ==
    {r \in RuleOptions : \A k \in DOMAIN r : r[k] \in RuleKeyValues[k]}

\* the stage tables with at most MaxConfigured stages present
StageTables ==
    UNION {[keys -> StageRules] : keys \in {K \in SUBSET StageKeys : Cardinality(K) <= MaxConfigured}}

\* the two-rule table of the specification's example
ExampleTable ==
    [x \in {"1", "2"} |->
        IF x = "1" THEN [D_max |-> 10, S_min |-> 0, S_max |-> 100]
                   ELSE [D_max |-> 50, S_min |-> 0, S_max |-> 500]]

ExampleConfig == [blog_stages |-> ExampleTable]

\* a loaded configuration: empty (the file could not be read,
\* total_gold.py:280-282), without a 'blog_stages' table, or with one
StageConfigs ==
    {EmptyDict, [other |-> 0]} \cup {[blog_stages |-> t] : t \in StageTables}

StageInputs ==
    (StageConfigs \X (0..MaxCount) \X (0..MaxCount))
        \cup ({ExampleConfig} \X {5, 30, 40} \X {30, 40, 50})

InitStage ==
    /\ \E input \in StageInputs :
          /\ blog_stages_config = input[1]
          /\ doc_count = input[2]
          /\ total_search = input[3]
    /\ keyword_stage = 0
    /\ spc = "ready"
    /\ ExpandIdle
    /\ SaveIdle
    /\ PipeIdle
    /\ AnalyzeIdle
    /\ BackgroundIdle
    /\ FilterIdle
    /\ CacheIdle

\* one call of get_keyword_stage
Classify ==
    /\ spc = "ready"
    /\ keyword_stage' = get_keyword_stage(blog_stages_config, doc_count, total_search)
    /\ spc' = "done"
    /\ UNCHANGED <<blog_stages_config, doc_count, total_search>>
    /\ UNCHANGED notStageVars

NextStage == Classify

SpecStage == InitStage /\ [][NextStage]_vars

----------------------------------------------------------------------------
(* The rows of an analysis and NaverAdsClient.save_to_excel *)

\* round(blog_count / total_search_volume, 3) if total_search_volume > 0 else 0
\* (total_gold.py:551, 623), in thousandths; a tie rounds to the even
\* neighbour, as Python's round does for an exactly representable quotient
competition_ratio(blog_count, total_search_volume) ==
    IF total_search_volume > 0
      THEN LET n == 1000 * blog_count
               q == n \div total_search_volume
               r == n % total_search_volume
           IN IF 2 * r < total_search_volume THEN q
              ELSE IF 2 * r > total_search_volume THEN q + 1
              ELSE IF q % 2 = 0 THEN q ELSE q + 1
      ELSE 0

\* the dictionary stored per keyword (total_gold.py:619-631)
MakeStats(pc_volume, mobile_volume, blog_count) ==
    [pc_search_volume |-> pc_volume,
     mobile_search_volume |-> mobile_volume,
     total_search_volume |-> pc_volume + mobile_volume,
     blog_count |-> blog_count,
     competition_ratio |-> competition_ratio(blog_count, pc_volume + mobile_volume)]

\* `data['stage'] = keyword_stage` (total_gold.py:765)
WithStage(stats, stage) ==
    [k \in DOMAIN stats \cup {"stage"} |-> IF k = "stage" THEN stage ELSE stats[k]]

\* one row of new_data (total_gold.py:794-802); the columns are, in the
\* file, 키워드, PC 검색량, 모바일 검색량, 총검색량, 문서량, 경쟁도, 단계
TableRow(keyword, stats) ==
    [keyword |-> keyword,
     pc |-> stats["pc_search_volume"],
     mobile |-> stats["mobile_search_volume"],
     total |-> stats["total_search_volume"],
     blog_count |-> stats["blog_count"],
     ratio |-> stats["competition_ratio"],
     stage |-> IF "stage" \in DOMAIN stats THEN stats["stage"] ELSE 0]

\* new_data (total_gold.py:792-804)
NewData(stats_by_keyword) ==
    LET keys == SetToSeq(DOMAIN stats_by_keyword)
    IN [i \in 1..Len(keys) |-> TableRow(keys[i], stats_by_keyword[keys[i]])]

\* `existing_df[(existing_df['단계'] > 0) & (existing_df['단계'].notna())]`
\* under MODE == "AUTO" (total_gold.py:808-811)
IsClassified(row) == row.stage > 0

PurgeNothing(rows, mode) == rows
PurgeUnclassified(rows, mode) ==
    IF mode = "AUTO" THEN SelectSeq(rows, IsClassified) ELSE rows

\* drop_duplicates(subset=['키워드'], keep='last') (total_gold.py:818)
DropDuplicatesKeepFirst(rows) ==
    LET keep == {i \in 1..Len(rows) : \A j \in 1..(i-1) : rows[j].keyword # rows[i].keyword}
        F[i \in 0..Len(rows)] ==
            IF i = 0 THEN <<>>
            ELSE IF i \in keep THEN Append(F[i-1], rows[i]) ELSE F[i-1]
    IN F[Len(rows)]
DropDuplicatesKeepLast(rows) ==
    LET keep == {i \in 1..Len(rows) : \A j \in (i+1)..Len(rows) : rows[j].keyword # rows[i].keyword}
        F[i \in 0..Len(rows)] ==
            IF i = 0 THEN <<>>
            ELSE IF i \in keep THEN Append(F[i-1], rows[i]) ELSE F[i-1]
    IN F[Len(rows)]

\* sort_values('경쟁도', ascending=True) (total_gold.py:823): the sort is not
\* a stable one, so rows of equal ratio may come out in any order
SortedByRatio(rows) ==
    LET n == Len(rows)
        perms == {p \in [1..n -> 1..n] : \A i, j \in 1..n : i # j => p[i] # p[j]}
    IN {[i \in 1..n |-> rows[p[i]]] : p \in
           {q \in perms : \A i \in 1..(n-1) : rows[q[i]].ratio <= rows[q[i+1]].ratio}}

\* save_to_excel (total_gold.py:769-831; gold.py:448-524 is the same code):
\* the outcomes of one call on `file`. read_ok: pd.read_excel succeeds
\* (lines 786-789); write_ok: to_excel succeeds (line 826; a failed write
\* leaves the file as it was). With no existing table and no incoming row
\* the frame has no '경쟁도' column and sort_values raises.
save_to_excel(file, stats_by_keyword, mode, read_ok, write_ok) ==
    LET loaded == file.exists /\ read_ok
        new_rows == NewData(stats_by_keyword)
        combined == IF loaded
                      THEN DropDuplicatesKeepLast(PurgeUnclassified(file.rows, mode) \o new_rows)
                      ELSE new_rows
    IN IF (~loaded /\ new_rows = <<>>) \/ ~write_ok
         THEN {[raised |-> TRUE, file |-> file]}
         ELSE {[raised |-> FALSE, file |-> [exists |-> TRUE, rows |-> t]] :
                  t \in SortedByRatio(combined)}

\* The arguments drawn for save_to_excel: keywords as lists of characters
SaveKeywords == {<<"a">>, <<"b">>}

SaveStats ==
    {MakeStats(0, 0, 5),
     WithStage(MakeStats(10, 40, 5), 1),
     WithStage(MakeStats(20, 20, 30), 2),
     MakeStats(20, 20, 30)}

SaveMappings == UNION {[keys -> SaveStats] : keys \in SUBSET SaveKeywords}

InitSave ==
    /\ MODE \in {"BASIC", "AUTO"}
    /\ excel = NoFile
    /\ save_count = 0
    /\ save_incoming = EmptyDict
    /\ save_before = NoFile
    /\ save_loaded = FALSE
    /\ save_outcome = "none"
    /\ ExpandIdle
    /\ StageIdle
    /\ PipeIdle
    /\ AnalyzeIdle
    /\ BackgroundIdle
    /\ FilterIdle
    /\ CacheIdle

\* one call of save_to_excel
SaveToExcel ==
    /\ save_count < MaxSaves
    /\ \E stats_by_keyword \in SaveMappings, read_ok \in BOOLEAN, write_ok \in BOOLEAN :
        \E result \in save_to_excel(excel, stats_by_keyword, MODE, read_ok, write_ok) :
            /\ excel' = result.file
            /\ save_outcome' = IF result.raised THEN "raised" ELSE "saved"
            /\ save_incoming' = stats_by_keyword
            /\ save_before' = excel
            /\ save_loaded' = (excel.exists /\ read_ok)
    /\ save_count' = save_count + 1
    /\ UNCHANGED MODE
    /\ UNCHANGED notSaveVars

NextSave == SaveToExcel

SpecSave == InitSave /\ [][NextSave]_vars

----------------------------------------------------------------------------
(* main (basic mode) and NaverAdsClient.get_keyword_analysis_with_save *)

\* TARGET_STAGES = [1, 2, 3, 4, 5] (total_gold.py:75)
TARGET_STAGES == {1, 2, 3, 4, 5}

Whitespace == {" ", "\t", "\n"}

\* str.strip(): without the leading and the trailing whitespace
RECURSIVE LStrip(_)
LStrip(str) ==
    IF str # <<>> /\ Head(str) \in Whitespace THEN LStrip(Tail(str)) ELSE str

RECURSIVE RStrip(_)
RStrip(str) ==
    IF str # <<>> /\ str[Len(str)] \in Whitespace
      THEN RStrip(SubSeq(str, 1, Len(str) - 1)) ELSE str

IsNotSpace(c) == c # " "

\* keyword.strip().replace(' ', '') (total_gold.py:323, 510, 577)
CleanKeyword(keyword) == SelectSeq(RStrip(LStrip(keyword)), IsNotSpace)

\* A volume as the oracle reports it: an integer, or a string such as "< 10"
IntVolume(n) == [int |-> n]
StrVolume(str) == [str |-> str]

Digits == <<"0", "1", "2", "3", "4", "5", "6", "7", "8", "9">>

DigitValue(c) == (CHOOSE i \in 1..10 : Digits[i] = c) - 1

IsDigits(str) == str # <<>> /\ \A i \in 1..Len(str) : \E d \in 1..10 : Digits[d] = str[i]

RECURSIVE DecimalValue(_)
DecimalValue(str) ==
    IF str = <<>> THEN 0
    ELSE 10 * DecimalValue(SubSeq(str, 1, Len(str) - 1)) + DigitValue(str[Len(str)])

parse_volume_less_than_as_zero(volume_str) ==
    IF "int" \in DOMAIN volume_str THEN volume_str["int"]
    ELSE IF "str" \in DOMAIN volume_str /\ IsDigits(volume_str["str"])
      THEN DecimalValue(volume_str["str"])
    ELSE 0
\* parse_volume (total_gold.py:599-609): an int as it is, a string that
\* starts with '<' as 5, a string int() reads as its value (of the strings
\* drawn here, those of digits), anything else 0
parse_volume(volume_str) ==
    IF "int" \in DOMAIN volume_str THEN volume_str["int"]
    ELSE IF "str" \in DOMAIN volume_str
      THEN IF volume_str["str"] # <<>> /\ Head(volume_str["str"]) = "<" THEN 5
           ELSE IF IsDigits(volume_str["str"]) THEN DecimalValue(volume_str["str"])
           ELSE 0
    ELSE 0

\* dict[key] = value
Put(dict, key, value) ==
    [k \in DOMAIN dict \cup {key} |-> IF k = key THEN value ELSE dict[k]]

\* dict.update(other)
Update(dict, other) ==
    [k \in DOMAIN dict \cup DOMAIN other |-> IF k \in DOMAIN other THEN other[k] ELSE dict[k]]

\* the slice keywords[i:i+5] (total_gold.py:405), i counted from 0
VolumeBatchOfSix(kws, i) ==
    SubSeq(kws, i + 1, IF i + 6 <= Len(kws) THEN i + 6 ELSE Len(kws))
VolumeBatchOf(kws, i) ==
    SubSeq(kws, i + 1, IF i + 5 <= Len(kws) THEN i + 5 ELSE Len(kws))

\* what one batch call of the volume oracle can give: entries for some of
\* the cleaned keywords of the batch (total_gold.py:353-393)
VolumePairs ==
    {[pc_search_volume |-> IntVolume(10),
      mobile_search_volume |-> StrVolume(<<"<", " ", "1", "0">>)],
     [pc_search_volume |-> StrVolume(<<"2", "0">>),
      mobile_search_volume |-> StrVolume(<<"-">>)]}

BatchResults(batch) ==
    UNION {[keys -> VolumePairs] : keys \in SUBSET {CleanKeyword(batch[i]) : i \in 1..Len(batch)}}

\* what get_blog_count returns: the total the search reports
\* (total_gold.py:423-469)
BlogCounts == {5, 60}

\* a loop body that reads the lookup under the original keyword
AnalyzeOneUncleaned(original_keyword, volumes, blog_count) ==
    LET found == original_keyword \in DOMAIN volumes
        pc_volume == IF found THEN parse_volume(volumes[original_keyword]["pc_search_volume"]) ELSE 0
        mobile_volume == IF found THEN parse_volume(volumes[original_keyword]["mobile_search_volume"]) ELSE 0
    IN MakeStats(pc_volume, mobile_volume, blog_count)

\* the per-keyword body of the analysis loop (total_gold.py:588-631)
AnalyzeOne(original_keyword, volumes, blog_count) ==
    LET cleaned_keyword == CleanKeyword(original_keyword)
        found == cleaned_keyword \in DOMAIN volumes
        pc_volume == IF found THEN parse_volume(volumes[cleaned_keyword]["pc_search_volume"]) ELSE 0
        mobile_volume == IF found THEN parse_volume(volumes[cleaned_keyword]["mobile_search_volume"]) ELSE 0
    IN MakeStats(pc_volume, mobile_volume, blog_count)

\* a filter that keeps every row
filter_keeps_every_row(stats_by_keyword, targets, config) ==
    IF config = EmptyDict \/ "blog_stages" \notin DOMAIN config THEN EmptyDict
    ELSE [k \in DOMAIN stats_by_keyword |->
             WithStage(stats_by_keyword[k],
                       get_keyword_stage(config, stats_by_keyword[k]["blog_count"],
                                         stats_by_keyword[k]["total_search_volume"]))]

\* filter_keywords_by_target_stages (total_gold.py:747-767): the mapping it
\* returns; the kept rows carry 'stage'
filter_keywords_by_target_stages(stats_by_keyword, targets, config) ==
    IF config = EmptyDict \/ "blog_stages" \notin DOMAIN config THEN EmptyDict
    ELSE LET StageOf(k) == get_keyword_stage(config, stats_by_keyword[k]["blog_count"],
                                             stats_by_keyword[k]["total_search_volume"])
             kept == {k \in DOMAIN stats_by_keyword : StageOf(k) \in targets}
         IN [k \in kept |-> WithStage(stats_by_keyword[k], StageOf(k))]

\* the filter stores 'stage' into the dictionaries of analysis_result itself
\* (`filtered_result[keyword] = data`, total_gold.py:764-765)
AfterFilter(stats_by_keyword, filtered) == Update(stats_by_keyword, filtered)

\* _save_final_results (total_gold.py:661-674) and the handlers of main
\* (total_gold.py:1180-1193): filter, save when a row is left, swallow an
\* Exception of the save
FilterAndSaveUnwritten(file, stats_by_keyword, config, mode, read_ok, write_ok) ==
    LET filtered == filter_keywords_by_target_stages(stats_by_keyword, TARGET_STAGES, config)
    IN {[file |-> file,
         outcome |-> IF filtered = EmptyDict THEN "nothing_to_save" ELSE "saved"]}
FilterAndSave(file, stats_by_keyword, config, mode, read_ok, write_ok) ==
    LET filtered == filter_keywords_by_target_stages(stats_by_keyword, TARGET_STAGES, config)
    IN IF filtered = EmptyDict
         THEN {[file |-> file, outcome |-> "nothing_to_save"]}
         ELSE {[file |-> r.file, outcome |-> IF r.raised THEN "raised" ELSE "saved"] :
                  r \in save_to_excel(file, filtered, mode, read_ok, write_ok)}

Annotated(stats_by_keyword, config) ==
    AfterFilter(stats_by_keyword,
                filter_keywords_by_target_stages(stats_by_keyword, TARGET_STAGES, config))

\* The inputs drawn: the keyword list (list(set(...)): no duplicates), the
\* stage configuration, the MODE and the store found
PipeKeywords == <<<<"a">>, <<"a", " ", "b">>, <<"a", "b">>>>

IsSubsequenceOf(l, base) ==
    \E pick \in [1..Len(l) -> 1..Len(base)] :
        /\ \A i \in 1..Len(l) : l[i] = base[pick[i]]
        /\ \A i, j \in 1..Len(l) : i < j => pick[i] < pick[j]

PipeKeywordLists ==
    {l \in SeqsUpTo(Range(PipeKeywords), MaxAnalyzed) :
        Len(l) >= 1 /\ IsSubsequenceOf(l, PipeKeywords)}

\* a list longer than one batch of batch_size keywords: keyword i is i
\* letters long
LongKeywordList == [i \in 1..NumLongKeywords |-> [j \in 1..i |-> "c"]]

\* for the keywords of the long list the two oracles have one answer each:
\* every keyword has the same volumes, the first and the last have few
\* documents (and different numbers of them), the others many
BatchResultsFor(batch) ==
    IF \A i \in 1..Len(batch) : batch[i] \in Range(LongKeywordList)
      THEN {[k \in {CleanKeyword(batch[i]) : i \in 1..Len(batch)} |->
                [pc_search_volume |-> IntVolume(10),
                 mobile_search_volume |-> StrVolume(<<"<", " ", "1", "0">>)]]}
      ELSE BatchResults(batch)

BlogCountsFor(keyword) ==
    IF keyword \in Range(LongKeywordList)
      THEN IF Len(keyword) = 1 THEN {5}
           ELSE IF Len(keyword) = NumLongKeywords THEN {3}
           ELSE {60}
      ELSE BlogCounts

PipeConfigs == {EmptyDict, ExampleConfig}

LegacyFile ==
    [exists |-> TRUE,
     rows |-> <<TableRow(<<"a">>, WithStage(MakeStats(20, 20, 30), 2)),
                TableRow(<<"z">>, MakeStats(0, 0, 30))>>]

InitPipe ==
    /\ keywords \in PipeKeywordLists \cup {LongKeywordList}
    /\ blog_stages_config \in PipeConfigs
    /\ MODE \in {"BASIC", "AUTO"}
    /\ excel \in {NoFile, LegacyFile}
    /\ search_volume_result = EmptyDict
    /\ volume_batch = 0
    /\ analysis_result = EmptyDict
    /\ global_i = 0
    /\ ppc = "volume"
    /\ main_has_result = FALSE
    /\ exit_status = -1
    /\ interrupted_in = "none"
    /\ interrupts_in_analysis = 0
    /\ final_save = "none"
    /\ intermediate_saves = <<>>
    /\ ExpandIdle
    /\ AnalyzeIdle
    /\ BackgroundIdle
    /\ FilterIdle
    /\ CacheIdle
    /\ doc_count = 0 /\ total_search = 0 /\ keyword_stage = 0 /\ spc = "idle"
    /\ save_count = 0 /\ save_incoming = EmptyDict /\ save_before = NoFile
    /\ save_loaded = FALSE /\ save_outcome = "none"

\* get_search_volume, one batch (total_gold.py:409-419): the call gives a
\* result, or raises and the batch is skipped
VolumeBatch ==
    /\ ppc = "volume"
    /\ LET batch == VolumeBatchOf(keywords, volume_batch)
       IN \E raised \in BOOLEAN, batch_result \in BatchResultsFor(batch) :
            /\ raised => batch_result = EmptyDict
            /\ search_volume_result' = Update(search_volume_result, batch_result)
    /\ volume_batch' = volume_batch + 5
    /\ ppc' = IF volume_batch + 5 >= Len(keywords) THEN "analyze" ELSE "volume"
    /\ UNCHANGED <<keywords, analysis_result, global_i, main_has_result, exit_status,
                   interrupted_in, interrupts_in_analysis, final_save>>
    /\ UNCHANGED <<blog_stages_config, MODE, excel>>
    /\ UNCHANGED intermediate_saves
    /\ UNCHANGED notPipeVars

\* a KeyboardInterrupt during get_search_volume: no handler of the analysis
\* catches it (total_gold.py:418 and 395-400 catch Exception only, line 571
\* is outside the try); main's handler finds analysis_result None and
\* returns 1 (total_gold.py:1177-1194)
VolumeInterrupted ==
    /\ ppc = "volume"
    /\ ppc' = "exit"
    /\ exit_status' = 1
    /\ interrupted_in' = "volume"
    /\ interrupts_in_analysis' = interrupts_in_analysis + 1
    /\ UNCHANGED <<keywords, search_volume_result, volume_batch, analysis_result,
                   global_i, main_has_result, final_save>>
    /\ UNCHANGED <<blog_stages_config, MODE, excel>>
    /\ UNCHANGED intermediate_saves
    /\ UNCHANGED notPipeVars

\* the inner loop over keywords[batch_idx:batch_idx + batch_size] is through
\* when n keywords of `total` are analysed (total_gold.py:584-588, 633-635)
BatchEndsWithList(n, total) == n = total
BatchEnds(n, total) == n % batch_size = 0 \/ n = total

\* one keyword of the analysis loop (total_gold.py:588-631)
AnalyzeKeyword ==
    /\ ppc = "analyze"
    /\ global_i < Len(keywords)
    /\ \E blog_count \in BlogCountsFor(keywords[global_i + 1]) :
         analysis_result' = Put(analysis_result, keywords[global_i + 1],
                                AnalyzeOne(keywords[global_i + 1], search_volume_result, blog_count))
    /\ global_i' = global_i + 1
    /\ ppc' = IF BatchEnds(global_i + 1, Len(keywords))
                THEN "intermediate_save" ELSE "analyze"
    /\ UNCHANGED <<keywords, search_volume_result, volume_batch, main_has_result,
                   exit_status, interrupted_in, interrupts_in_analysis, final_save>>
    /\ UNCHANGED <<blog_stages_config, MODE, excel>>
    /\ UNCHANGED intermediate_saves
    /\ UNCHANGED notPipeVars

\* a KeyboardInterrupt in the analysis loop (in get_blog_count or a pause):
\* the handler of total_gold.py:643-647 saves what was analysed and raises
\* again, main's handler finds its own analysis_result None and returns 1.
\* again: a further interrupt arrives during _save_final_results, which
\* catches Exception only; the save is cut short before or after the write.
AnalyzeInterrupted ==
    /\ ppc = "analyze"
    /\ \E read_ok \in BOOLEAN, write_ok \in BOOLEAN, again \in BOOLEAN :
        IF analysis_result = EmptyDict
          THEN /\ ~again
               /\ final_save' = "nothing_analysed"
               /\ UNCHANGED <<excel, analysis_result>>
          ELSE \E r \in FilterAndSave(excel, analysis_result, blog_stages_config, MODE,
                                      read_ok, write_ok) :
                 /\ excel' \in IF again THEN {excel, r.file} ELSE {r.file}
                 /\ final_save' = IF again THEN "interrupted" ELSE r.outcome
                 /\ analysis_result' = Annotated(analysis_result, blog_stages_config)
    /\ ppc' = "exit"
    /\ exit_status' = 1
    /\ interrupted_in' = "analyze"
    /\ interrupts_in_analysis' = interrupts_in_analysis + 1
    /\ UNCHANGED <<keywords, search_volume_result, volume_batch, global_i, main_has_result>>
    /\ UNCHANGED <<blog_stages_config, MODE>>
    /\ UNCHANGED intermediate_saves
    /\ UNCHANGED notPipeVars

\* the end of a batch: _save_intermediate_results (total_gold.py:634-635,
\* 649-659), every failure swallowed; then the next batch, or
\* `return analysis_result` to main
IntermediateSave ==
    /\ ppc = "intermediate_save"
    /\ \E read_ok \in BOOLEAN, write_ok \in BOOLEAN :
        \E r \in FilterAndSave(excel, analysis_result, blog_stages_config, MODE,
                               read_ok, write_ok) :
            /\ excel' = r.file
            /\ intermediate_saves' = Append(intermediate_saves,
                                            [upto |-> global_i, outcome |-> r.outcome])
    /\ analysis_result' = Annotated(analysis_result, blog_stages_config)
    /\ ppc' = IF global_i = Len(keywords) THEN "after_analysis" ELSE "analyze"
    /\ main_has_result' = (global_i = Len(keywords))
    /\ UNCHANGED <<keywords, search_volume_result, volume_batch, global_i, exit_status,
                   interrupted_in, interrupts_in_analysis, final_save>>
    /\ UNCHANGED <<blog_stages_config, MODE>>
    /\ UNCHANGED notPipeVars

\* a KeyboardInterrupt inside _save_intermediate_results: the bare `except:`
\* of total_gold.py:658 catches it and the analysis goes on. It arrives
\* before the filter, between the filter and the write, or after the write.
IntermediateSaveInterrupted ==
    /\ ppc = "intermediate_save"
    /\ \E read_ok \in BOOLEAN, write_ok \in BOOLEAN, filtered \in BOOLEAN, written \in BOOLEAN :
        /\ written => filtered
        /\ \E r \in FilterAndSave(excel, analysis_result, blog_stages_config, MODE,
                                  read_ok, write_ok) :
              excel' = IF written THEN r.file ELSE excel
        /\ analysis_result' = IF filtered THEN Annotated(analysis_result, blog_stages_config)
                              ELSE analysis_result
    /\ interrupts_in_analysis' = interrupts_in_analysis + 1
    /\ intermediate_saves' = Append(intermediate_saves,
                                    [upto |-> global_i, outcome |-> "interrupted"])
    /\ ppc' = IF global_i = Len(keywords) THEN "after_analysis" ELSE "analyze"
    /\ main_has_result' = (global_i = Len(keywords))
    /\ UNCHANGED <<keywords, search_volume_result, volume_batch, global_i, exit_status,
                   interrupted_in, final_save>>
    /\ UNCHANGED <<blog_stages_config, MODE>>
    /\ UNCHANGED notPipeVars

\* main after the analysis (total_gold.py:1136-1175): filter, save_to_excel
\* with its Exception caught and reported, return 0
FinishMain ==
    /\ ppc = "after_analysis"
    /\ LET filtered == filter_keywords_by_target_stages(analysis_result, TARGET_STAGES,
                                                        blog_stages_config)
       IN \E read_ok \in BOOLEAN, write_ok \in BOOLEAN :
            \E r \in save_to_excel(excel, filtered, MODE, read_ok, write_ok) :
                /\ excel' = r.file
                /\ final_save' = IF r.raised THEN "raised" ELSE "saved"
    /\ analysis_result' = Annotated(analysis_result, blog_stages_config)
    /\ ppc' = "exit"
    /\ exit_status' = 0
    /\ UNCHANGED <<keywords, search_volume_result, volume_batch, global_i, main_has_result,
                   interrupted_in, interrupts_in_analysis>>
    /\ UNCHANGED <<blog_stages_config, MODE>>
    /\ UNCHANGED intermediate_saves
    /\ UNCHANGED notPipeVars

\* a KeyboardInterrupt in main after the analysis returned: the handler of
\* total_gold.py:1177-1194 filters, saves and returns 1
MainInterrupted ==
    /\ ppc = "after_analysis"
    /\ \E read_ok \in BOOLEAN, write_ok \in BOOLEAN :
        \E r \in FilterAndSave(excel, analysis_result, blog_stages_config, MODE,
                               read_ok, write_ok) :
            /\ excel' = r.file
            /\ final_save' = r.outcome
    /\ analysis_result' = Annotated(analysis_result, blog_stages_config)
    /\ ppc' = "exit"
    /\ exit_status' = 1
    /\ interrupted_in' = "main"
    /\ UNCHANGED <<keywords, search_volume_result, volume_batch, global_i, main_has_result,
                   interrupts_in_analysis>>
    /\ UNCHANGED <<blog_stages_config, MODE>>
    /\ UNCHANGED intermediate_saves
    /\ UNCHANGED notPipeVars

NextPipe ==
    \/ VolumeBatch
    \/ VolumeInterrupted
    \/ AnalyzeKeyword
    \/ AnalyzeInterrupted
    \/ IntermediateSave
    \/ IntermediateSaveInterrupted
    \/ FinishMain
    \/ MainInterrupted

SpecPipe == InitPipe /\ [][NextPipe]_vars

----------------------------------------------------------------------------
(* NaverAdsClient.filter_keywords_by_target_stages applied to drawn inputs *)

\* rows as the analyzers produce them (no 'stage' yet): of tier 1, of tier 2
\* and of no tier under ExampleConfig
FilterStats == {MakeStats(10, 40, 5), MakeStats(20, 20, 30), MakeStats(0, 0, 60)}

FilterMappings == UNION {[keys -> FilterStats] : keys \in SUBSET SaveKeywords}

FilterConfigs == {EmptyDict, [other |-> 0], ExampleConfig}

\* the argument target_stages: TARGET_STAGES (the default and what every
\* caller passes) or another list of stage numbers
FilterTargets == {TARGET_STAGES, {1}, {0, 2}, {}}

InitFilter ==
    /\ analysis_result \in FilterMappings
    /\ blog_stages_config \in FilterConfigs
    /\ target_stages \in FilterTargets
    /\ filtered_result = EmptyDict
    /\ fpc = "ready"
    /\ keywords = <<>>
    /\ search_volume_result = EmptyDict
    /\ volume_batch = 0
    /\ global_i = 0
    /\ ppc = "idle"
    /\ MainIdle
    /\ doc_count = 0 /\ total_search = 0 /\ keyword_stage = 0 /\ spc = "idle"
    /\ ExpandIdle
    /\ SaveIdle
    /\ AnalyzeIdle
    /\ BackgroundIdle
    /\ CacheIdle

\* one call of filter_keywords_by_target_stages: the mapping is returned and
\* the kept rows of the argument carry 'stage' afterwards
Filter ==
    /\ fpc = "ready"
    /\ filtered_result' = filter_keywords_by_target_stages(analysis_result, target_stages,
                                                           blog_stages_config)
    /\ analysis_result' = AfterFilter(analysis_result, filtered_result')
    /\ fpc' = "done"
    /\ UNCHANGED <<target_stages, blog_stages_config>>
    /\ UNCHANGED <<keywords, search_volume_result, volume_batch, global_i, ppc,
                   main_has_result, exit_status, interrupted_in, interrupts_in_analysis,
                   final_save, intermediate_saves>>
    /\ UNCHANGED <<expandVars, doc_count, total_search, keyword_stage, spc, saveVars,
                   analyzeVars, backgroundVars, cacheVars>>

NextFilter == Filter

SpecFilter == InitFilter /\ [][NextFilter]_vars

----------------------------------------------------------------------------
(* get_search_volume, get_keyword_analysis and get_keyword_analysis_with_save,
   run one after the other on the same keyword list, the same volume lookup
   and the same blog search *)

\* the keyword lists drawn: the first n of these, n up to MaxListed. The
\* second and the third clean to the same string.
AnalyzeBase ==
    <<<<"a">>, <<"a", " ", "b">>, <<"a", "b">>, <<" ", "c">>, <<"d">>, <<"e">>,
      <<"f">>, <<"g">>, <<"h">>, <<"i">>, <<"j">>>>

AnalyzeKeywordLists ==
    {SubSeq(AnalyzeBase, 1, n) : n \in 0..(IF MaxListed <= Len(AnalyzeBase)
                                             THEN MaxListed ELSE Len(AnalyzeBase))}

\* what the blog search does for one keyword: it fails (HTTP error, timeout,
\* missing credentials) or it answers with a total
BlogOutcomes == {[failed |-> TRUE, total |-> 0], [failed |-> FALSE, total |-> 30]}

\* get_blog_count (total_gold.py:423-469): the total of the answer, 0 on
\* every failure
get_blog_count_negative(outcome) == IF outcome.failed THEN -1 ELSE outcome.total
get_blog_count(outcome) == IF outcome.failed THEN 0 ELSE outcome.total

\* what one call of _get_search_volume_batch gives when it does not raise
\* (total_gold.py:353-393): entries for all, all but the first, or none of
\* the cleaned keywords of the batch
AnalyzeBatchResults(batch) ==
    LET cleaned == [i \in 1..Len(batch) |-> CleanKeyword(batch[i])]
        keysets == {Range(cleaned), Range(cleaned) \ {cleaned[1]}, {}}
    IN UNION {{[k \in keys |-> pair] : pair \in VolumePairs} : keys \in keysets}

\* `if cleaned_keyword in search_volume_result:` (total_gold.py:524)
InLookupAlways(cleaned_keyword, lookup) == TRUE
InLookup(cleaned_keyword, lookup) == cleaned_keyword \in DOMAIN lookup

InitAnalyze ==
    /\ keywords \in AnalyzeKeywordLists
    /\ blog_oracle \in [Range(keywords) -> BlogOutcomes]
    /\ search_volume_result = EmptyDict
    /\ volume_batch = 0
    /\ volume_calls = <<>>
    /\ analysis_result = EmptyDict
    /\ strict_result = EmptyDict
    /\ blog_calls = <<>>
    /\ strict_blog_calls = <<>>
    /\ global_i = 0
    /\ ppc = "volume"
    /\ MainIdle
    /\ ExpandIdle
    /\ StageIdle
    /\ SaveIdle
    /\ BackgroundIdle
    /\ FilterIdle
    /\ CacheIdle

\* get_search_volume, one batch (total_gold.py:405-419): the slice is passed
\* to _get_search_volume_batch; a result is merged into all_results, an
\* Exception skips the batch
QueryVolumeBatch ==
    /\ ppc = "volume"
    /\ volume_batch < Len(keywords)
    /\ LET batch == VolumeBatchOf(keywords, volume_batch)
       IN \E raised \in BOOLEAN, batch_result \in AnalyzeBatchResults(batch) :
            /\ raised => batch_result = EmptyDict
            /\ search_volume_result' =
                  IF raised THEN search_volume_result
                  ELSE Update(search_volume_result, batch_result)
            /\ volume_calls' = Append(volume_calls,
                  [start |-> volume_batch, batch |-> batch, raised |-> raised,
                   result |-> batch_result])
    /\ volume_batch' = volume_batch + 5
    /\ UNCHANGED <<keywords, analysis_result, global_i, ppc>>
    /\ UNCHANGED <<strict_result, blog_oracle, blog_calls, strict_blog_calls>>
    /\ UNCHANGED notAnalyzeVars

\* `return all_results` (total_gold.py:421)
VolumeReturned ==
    /\ ppc = "volume"
    /\ volume_batch >= Len(keywords)
    /\ ppc' = "analyze"
    /\ UNCHANGED <<keywords, search_volume_result, volume_batch, analysis_result, global_i>>
    /\ UNCHANGED analyzeVars
    /\ UNCHANGED notAnalyzeVars

\* get_keyword_analysis_with_save, one keyword (total_gold.py:588-631): the
\* document count is asked for every keyword
PermissiveKeyword ==
    /\ ppc = "analyze"
    /\ global_i < Len(keywords)
    /\ LET original_keyword == keywords[global_i + 1]
           blog_count == get_blog_count(blog_oracle[original_keyword])
       IN /\ blog_calls' = Append(blog_calls, original_keyword)
          /\ analysis_result' = Put(analysis_result, original_keyword,
                                    AnalyzeOne(original_keyword, search_volume_result, blog_count))
    /\ global_i' = global_i + 1
    /\ UNCHANGED <<keywords, search_volume_result, volume_batch, ppc>>
    /\ UNCHANGED <<strict_result, volume_calls, blog_oracle, strict_blog_calls>>
    /\ UNCHANGED notAnalyzeVars

\* `return analysis_result` (total_gold.py:641); get_keyword_analysis starts
PermissiveReturned ==
    /\ ppc = "analyze"
    /\ global_i = Len(keywords)
    /\ ppc' = "analyze_strict"
    /\ global_i' = 0
    /\ UNCHANGED <<keywords, search_volume_result, volume_batch, analysis_result>>
    /\ UNCHANGED analyzeVars
    /\ UNCHANGED notAnalyzeVars

\* get_keyword_analysis, one keyword (total_gold.py:520-559): a keyword
\* whose cleaned form is not in the lookup is passed over
StrictKeyword ==
    /\ ppc = "analyze_strict"
    /\ global_i < Len(keywords)
    /\ LET original_keyword == keywords[global_i + 1]
           blog_count == get_blog_count(blog_oracle[original_keyword])
       IN IF InLookup(CleanKeyword(original_keyword), search_volume_result)
            THEN /\ strict_blog_calls' = Append(strict_blog_calls, original_keyword)
                 /\ strict_result' = Put(strict_result, original_keyword,
                                         AnalyzeOne(original_keyword, search_volume_result, blog_count))
            ELSE UNCHANGED <<strict_blog_calls, strict_result>>
    /\ global_i' = global_i + 1
    /\ UNCHANGED <<keywords, search_volume_result, volume_batch, analysis_result, ppc>>
    /\ UNCHANGED <<volume_calls, blog_oracle, blog_calls>>
    /\ UNCHANGED notAnalyzeVars

\* `return analysis_result` (total_gold.py:565)
StrictReturned ==
    /\ ppc = "analyze_strict"
    /\ global_i = Len(keywords)
    /\ ppc' = "done"
    /\ UNCHANGED <<keywords, search_volume_result, volume_batch, analysis_result, global_i>>
    /\ UNCHANGED analyzeVars
    /\ UNCHANGED notAnalyzeVars

NextAnalyze ==
    \/ QueryVolumeBatch
    \/ VolumeReturned
    \/ PermissiveKeyword
    \/ PermissiveReturned
    \/ StrictKeyword
    \/ StrictReturned

SpecAnalyze == InitAnalyze /\ [][NextAnalyze]_vars

----------------------------------------------------------------------------
(* background_auto_mode: the main thread and the worker thread *)

\* the subjects select_random_subject can pick (total_gold.py:914-925)
Subjects == {"subject1", "subject2"}

\* the steps of run_single_analysis (total_gold.py:928-1021) in order:
\* "load", "expand", "analyze", "save"
NextRunStep(step) ==
    IF step = "load" THEN "expand"
    ELSE IF step = "expand" THEN "analyze"
    ELSE "save"

\* where the worker goes when run_single_analysis has returned: the
\* time.sleep(AUTO_CYCLE_MINUTES * 60) of total_gold.py:1050-1052
AfterRunWithoutWait == "loop"
AfterRun == "sleep"

InitBackground ==
    /\ main_thread = "start"
    /\ worker_thread = "idle"
    /\ cycle_count = 0
    /\ selected_subject = "none"
    /\ run_pc = "none"
    /\ success = FALSE
    /\ runs_in_progress = 0
    /\ run_starters = {}
    /\ waits_completed = 0
    /\ run_analysed = 0
    /\ run_targets = 0
    /\ run_stored = 0
    /\ exit_during = "none"
    /\ ExpandIdle
    /\ StageIdle
    /\ SaveIdle
    /\ PipeIdle
    /\ AnalyzeIdle
    /\ CacheIdle
    /\ FilterIdle

\* background_auto_mode: Thread(target=background_auto_worker, daemon=True)
\* is started and the main thread joins it (total_gold.py:1069-1073)
StartWorker ==
    /\ main_thread = "start"
    /\ main_thread' = "join"
    /\ worker_thread' = "loop"
    /\ UNCHANGED <<cycle_count, selected_subject, run_pc, success, runs_in_progress,
                   run_starters, waits_completed>>
    /\ UNCHANGED runVars
    /\ UNCHANGED notBackgroundVars

\* a KeyboardInterrupt ends the join; background_auto_mode returns
\* (total_gold.py:1074-1075)
JoinInterrupted ==
    /\ main_thread = "join"
    /\ main_thread' = "returned"
    /\ UNCHANGED <<worker_thread, cycle_count, selected_subject, run_pc, success,
                   runs_in_progress, run_starters, waits_completed>>
    /\ UNCHANGED runVars
    /\ UNCHANGED notBackgroundVars

\* main returns 0 and the interpreter exits: the daemon thread is stopped
\* wherever it is (total_gold.py:1090-1096)
ProcessExit ==
    /\ main_thread = "returned"
    /\ main_thread' = "exited"
    /\ worker_thread' = "killed"
    /\ runs_in_progress' = 0
    /\ run_pc' = "none"
    /\ exit_during' = run_pc
    /\ UNCHANGED <<cycle_count, selected_subject, success, run_starters, waits_completed,
                   run_analysed, run_targets, run_stored>>
    /\ UNCHANGED notBackgroundVars

\* the top of the worker loop (total_gold.py:1031-1043): the cycle is
\* counted, a subject is selected and run_single_analysis is called; when
\* the selection raises, the handler of lines 1057-1060 waits 5 minutes
BeginCycle ==
    /\ worker_thread = "loop"
    /\ cycle_count < MaxCycles
    /\ cycle_count' = cycle_count + 1
    /\ \/ \E subject \in Subjects :
            /\ selected_subject' = subject
            /\ worker_thread' = "run"
            /\ run_pc' = "load"
            /\ runs_in_progress' = runs_in_progress + 1
            /\ run_starters' = run_starters \cup {"worker"}
            /\ run_analysed' = 0
            /\ run_targets' = 0
            /\ run_stored' = 0
       \/ /\ worker_thread' = "retry_sleep"
          /\ UNCHANGED <<selected_subject, run_pc, runs_in_progress, run_starters,
                         run_analysed, run_targets, run_stored>>
    /\ UNCHANGED <<main_thread, success, waits_completed, exit_during>>
    /\ UNCHANGED notBackgroundVars

\* one step of run_single_analysis goes through
RunStep ==
    /\ worker_thread = "run"
    /\ run_pc \in {"load", "expand", "analyze"}
    /\ run_pc' = NextRunStep(run_pc)
    /\ UNCHANGED <<main_thread, worker_thread, cycle_count, selected_subject, success,
                   runs_in_progress, run_starters, waits_completed>>
    /\ UNCHANGED runVars
    /\ UNCHANGED notBackgroundVars

\* get_keyword_analysis, one keyword (total_gold.py:520-559): its metrics
\* are put into the mapping the function will return; in_target: the tier
\* the filter will find for it is one of TARGET_STAGES. Nothing is written
\* to the store during the analysis.
RunAnalyzeKeyword ==
    /\ worker_thread = "run"
    /\ run_pc = "analyze"
    /\ run_analysed < MaxRunKeywords
    /\ run_analysed' = run_analysed + 1
    /\ \E in_target \in BOOLEAN :
         run_targets' = IF in_target THEN run_targets + 1 ELSE run_targets
    /\ UNCHANGED <<main_thread, worker_thread, cycle_count, selected_subject, run_pc,
                   success, runs_in_progress, run_starters, waits_completed, run_stored,
                   exit_during>>
    /\ UNCHANGED notBackgroundVars

\* run_single_analysis returns: False from any step (nothing loaded,
\* nothing expanded, nothing analysed, nothing to save, or an Exception,
\* total_gold.py:1006-1021), True from the save (line 986). Only the save
\* step writes the rows of target tiers (total_gold.py:979-983), or, when it
\* raised an Exception, the handler's own save does (lines 1010-1017).
RunReturns ==
    /\ worker_thread = "run"
    /\ \E result \in BOOLEAN, handler_saved \in BOOLEAN :
         /\ result \/ handler_saved => run_pc = "save" /\ run_targets > 0
         /\ handler_saved => ~result
         /\ success' = result
         /\ run_stored' = IF result \/ handler_saved THEN run_targets ELSE run_stored
    /\ run_pc' = "none"
    /\ runs_in_progress' = runs_in_progress - 1
    /\ worker_thread' = AfterRun
    /\ UNCHANGED <<main_thread, cycle_count, selected_subject, run_starters, waits_completed,
                   run_analysed, run_targets, exit_during>>
    /\ UNCHANGED notBackgroundVars

\* time.sleep(AUTO_CYCLE_MINUTES * 60) returns (total_gold.py:1052), or
\* the time.sleep(300) of the Exception handler does (line 1060)
WaitOver ==
    /\ worker_thread \in {"sleep", "retry_sleep"}
    /\ worker_thread' = "loop"
    /\ waits_completed' = waits_completed + 1
    /\ UNCHANGED <<main_thread, cycle_count, selected_subject, run_pc, success,
                   runs_in_progress, run_starters>>
    /\ UNCHANGED runVars
    /\ UNCHANGED notBackgroundVars

NextBackground ==
    \/ StartWorker
    \/ JoinInterrupted
    \/ ProcessExit
    \/ BeginCycle
    \/ RunStep
    \/ RunAnalyzeKeyword
    \/ RunReturns
    \/ WaitOver

SpecBackground == InitBackground /\ [][NextBackground]_vars

----------------------------------------------------------------------------
(* expand.py: collect_keywords_for_subject and the usage cache *)

\* the seeds get_afw_seed_keywords returns for the subject (expand.py:179-210)
AfwSeeds == <<"seed1", "seed2">>

\* cache.get(keyword, 0)
UsageCount(c, keyword) == IF keyword \in DOMAIN c THEN c[keyword] ELSE 0

\* update_keyword_usage (expand.py:75-80)
update_keyword_usage(c, keyword, ok, no_data) ==
    IF ok THEN Put(c, keyword, UsageCount(c, keyword) + 1)
    ELSE IF no_data THEN Put(c, keyword, -1)
    ELSE c

\* "available" of get_available_afw_keywords (expand.py:268-273)
Available(c, keyword) == UsageCount(c, keyword) = 0 \/ UsageCount(c, keyword) = -1

IsAvailableNow(keyword) == Available(cache_file, keyword)

\* what get_expand_keywords gives for a seed (expand.py:83-158): keywords
\* (success), no data, or a failure of the API
ExpandOutcomes == {"success", "no_data", "failure"}

InitCache ==
    /\ cache_file = EmptyDict
    /\ cache = EmptyDict
    /\ unused_seeds = <<>>
    /\ max_seeds \in 1..MaxWanted
    /\ processed_count = 0
    /\ success_count = 0
    /\ results = {}
    /\ cpc = "idle"
    /\ run_count = 0
    /\ recorded_success = {}
    /\ ExpandIdle
    /\ StageIdle
    /\ SaveIdle
    /\ PipeIdle
    /\ AnalyzeIdle
    /\ BackgroundIdle
    /\ FilterIdle

\* collect_keywords_for_subject up to its loop (expand.py:279-296): the
\* available seeds are listed and the cache is loaded; with no available
\* seed it returns at once
StartRun ==
    /\ cpc = "idle"
    /\ run_count < MaxRuns
    /\ LET unused == SelectSeq(AfwSeeds, IsAvailableNow)
       IN IF unused = <<>>
            THEN /\ run_count' = run_count + 1
                 /\ UNCHANGED <<cache, unused_seeds, processed_count, success_count,
                                results, cpc>>
            ELSE /\ unused_seeds' = unused
                 /\ cache' = cache_file
                 /\ processed_count' = 0
                 /\ success_count' = 0
                 /\ results' = {}
                 /\ cpc' = "loop"
                 /\ UNCHANGED run_count
    /\ UNCHANGED <<cache_file, max_seeds, recorded_success>>
    /\ UNCHANGED notCacheVars

\* one seed of the loop (expand.py:299-336): the outcome of
\* get_expand_keywords is recorded in the cache of the run
ProcessSeed ==
    /\ cpc = "loop"
    /\ processed_count < Len(unused_seeds)
    /\ success_count < max_seeds
    /\ \E outcome \in ExpandOutcomes :
         /\ cache' = update_keyword_usage(cache, unused_seeds[processed_count + 1],
                                          outcome = "success", outcome = "no_data")
         /\ success_count' = IF outcome = "success" THEN success_count + 1 ELSE success_count
         /\ results' = IF outcome = "success"
                         THEN results \cup {unused_seeds[processed_count + 1]}
                         ELSE results
    /\ processed_count' = processed_count + 1
    /\ UNCHANGED <<cache_file, unused_seeds, max_seeds, cpc, run_count, recorded_success>>
    /\ UNCHANGED notCacheVars

\* the loop is left and save_cache writes the cache (expand.py:338-341,
\* 63-72); a failure of the write is swallowed and leaves the file as it was
FinishRun ==
    /\ cpc = "loop"
    /\ processed_count = Len(unused_seeds) \/ success_count >= max_seeds
    /\ \E write_ok \in BOOLEAN :
         IF write_ok
           THEN /\ cache_file' = cache
                /\ recorded_success' = recorded_success \cup results
           ELSE UNCHANGED <<cache_file, recorded_success>>
    /\ cpc' = "idle"
    /\ run_count' = run_count + 1
    /\ UNCHANGED <<cache, unused_seeds, max_seeds, processed_count, success_count, results>>
    /\ UNCHANGED notCacheVars

NextCache ==
    \/ StartRun
    \/ ProcessSeed
    \/ FinishRun

SpecCache == InitCache /\ [][NextCache]_vars

----------------------------------------------------------------------------
(* Claims about expand_keywords_recursive *)

Left == epc # "loop"
Returned == epc = "returned"

\* C1: the pool returned by expand_keywords_recursive holds at most
\* max_keywords keywords.
C1_PoolWithinLimit ==
    Returned => Cardinality(all_keywords) <= max_keywords

\* C2 as stated: the loop is only ever left with the queue empty, the pool
\* at max_keywords, or the empty-result breaker tripped.
C2_LeftByOneOfThree ==
    Left => \/ queue = <<>>
            \/ Cardinality(all_keywords) >= max_keywords
            \/ consecutive_empty_results >= max_empty_tolerance

\* C2 as amended: every run leaves the loop, and it leaves it with the queue
\* empty, the pool at max_keywords, the breaker tripped, or on an operator
\* interrupt (a break during the pause, or the exception propagating from
\* the oracle call).
C2_Terminates ==
    /\ <>Left
    /\ [](Left => \/ queue = <<>>
                  \/ Cardinality(all_keywords) >= max_keywords
                  \/ consecutive_empty_results >= max_empty_tolerance
                  \/ exit_by \in {"interrupt_in_pause", "interrupt_raised"})

\* the breaker ended a run after max_empty_tolerance empty responses
C2_Witness ==
    /\ Returned
    /\ exit_by = "circuit_breaker"
    /\ queue # <<>>
    /\ Cardinality(all_keywords) < max_keywords

\* C3: within one call no keyword is passed to get_naver_autocomplete more
\* than once.
C3_AtMostOneCall ==
    \A k \in DOMAIN oracle_calls : oracle_calls[k] <= 1

\* a run to the empty queue with a seed listed twice, whose last response
\* repeated keywords that had been queried already
C3_Witness ==
    /\ Returned
    /\ exit_by = "queue_empty"
    /\ ~NoDup(seed_keywords)
    /\ last_response # <<>>
    /\ Range(last_response) \subseteq processed_keywords
    /\ total_processed >= 2

\* C4: when max_keywords is at least the number of seeds, every seed is in
\* the returned pool.
C4_SeedsInPool ==
    (Returned /\ max_keywords >= Len(seed_keywords))
        => Range(seed_keywords) \subseteq all_keywords

\* a run that returned a pool grown beyond several seeds
C4_Witness ==
    /\ Returned
    /\ max_keywords >= Len(seed_keywords)
    /\ Cardinality(Range(seed_keywords)) >= 2
    /\ all_keywords # Range(seed_keywords)
    /\ total_processed >= 2

----------------------------------------------------------------------------
(* Claims about get_keyword_stage *)

Classified == spc = "done"

\* stage k is configured and (doc_count, total_search) is within its bounds
InBounds(k) ==
    /\ blog_stages_config # EmptyDict
    /\ "blog_stages" \in DOMAIN blog_stages_config
    /\ StageKey(k) \in DOMAIN blog_stages_config["blog_stages"]
    /\ LET rule == blog_stages_config["blog_stages"][StageKey(k)]
       IN /\ "D_max" \in DOMAIN rule => doc_count <= rule["D_max"]
          /\ "S_min" \in DOMAIN rule => rule["S_min"] <= total_search
          /\ "S_max" \in DOMAIN rule => total_search <= rule["S_max"]

\* the first stage after k whose bounds hold and whose search volume is at
\* least the document count, or 0
FirstLater(k) ==
    LET later == {j \in (k+1)..5 : InBounds(j) /\ total_search >= doc_count}
    IN IF later = {} THEN 0 ELSE CHOOSE j \in later : \A i \in later : j <= i

\* C5 as stated: within the bounds of a stage k >= 2 but with
\* total_search < doc_count, the result is not k: it is the first later
\* stage whose bounds hold with total_search >= doc_count, or 0.
C5_LaterStageOrZero ==
    Classified =>
        \A k \in 2..5 : (InBounds(k) /\ total_search < doc_count) =>
            keyword_stage # k /\ keyword_stage = FirstLater(k)

\* C5 as amended: within the bounds of a stage k >= 2 but with
\* total_search < doc_count, the result is not k: it is 1 when the bounds
\* of stage 1 hold too, and otherwise the first later stage whose bounds
\* hold with total_search >= doc_count, or 0.
C5_StageOneOrLaterOrZero ==
    Classified =>
        \A k \in 2..5 : (InBounds(k) /\ total_search < doc_count) =>
            /\ keyword_stage # k
            /\ keyword_stage = IF InBounds(1) THEN 1 ELSE FirstLater(k)

\* a classified pair within the bounds of a stage k >= 2 and of no stage 1,
\* with fewer searches than documents, and a later stage configured
C5_Witness ==
    /\ Classified
    /\ total_search < doc_count
    /\ ~InBounds(1)
    /\ \E k \in 2..4 : InBounds(k) /\ \E j \in (k+1)..5 : InBounds(j)
    /\ keyword_stage = 0

\* C6: a pair within the bounds of stage 1 is classified 1, whether or not
\* total_search >= doc_count.
C6_StageOneOnBoundsAlone ==
    (Classified /\ InBounds(1)) => keyword_stage = 1

\* a pair within the bounds of stage 1 with fewer searches than documents
C6_Witness ==
    /\ Classified
    /\ InBounds(1)
    /\ total_search < doc_count
    /\ keyword_stage = 1

\* C7 as stated: with the two example rules, (5, 50) is classified 1 and
\* (30, 40) is classified 0.
C7_ExampleAsStated ==
    (Classified /\ blog_stages_config = ExampleConfig) =>
        /\ (doc_count = 5 /\ total_search = 50) => keyword_stage = 1
        /\ (doc_count = 30 /\ total_search = 40) => keyword_stage = 0

\* C7 as amended: with the two example rules, (5, 50) is classified 1 and
\* (30, 40) is classified 2.
C7_Example ==
    (Classified /\ blog_stages_config = ExampleConfig) =>
        /\ (doc_count = 5 /\ total_search = 50) => keyword_stage = 1
        /\ (doc_count = 30 /\ total_search = 40) => keyword_stage = 2

\* the example's second pair, classified
C7_Witness ==
    /\ Classified
    /\ blog_stages_config = ExampleConfig
    /\ doc_count = 30
    /\ total_search = 40
    /\ keyword_stage = 2

----------------------------------------------------------------------------
(* Claims about save_to_excel *)

\* the rows of a table stored for a keyword
RowsFor(file, keyword) ==
    {file.rows[i] : i \in {j \in 1..Len(file.rows) : file.rows[j].keyword = keyword}}

StoredKeywords(file) == {file.rows[i].keyword : i \in 1..Len(file.rows)}

\* the purge of unclassified rows applies to a row of the existing table
PurgeApplies(row) == MODE = "AUTO" /\ row.stage <= 0

\* C10: after a save that merged into a loaded existing table, every
\* incoming keyword is stored with exactly its incoming row, and every
\* keyword only in the existing table keeps its row, unless the purge of
\* unclassified rows applies to it.
C10_LastWriteWins ==
    (save_outcome = "saved" /\ save_loaded) =>
        /\ \A k \in DOMAIN save_incoming :
              RowsFor(excel, k) = {TableRow(k, save_incoming[k])}
        /\ \A k \in StoredKeywords(save_before) \ DOMAIN save_incoming :
              \A row \in RowsFor(save_before, k) :
                  ~PurgeApplies(row) => RowsFor(excel, k) = {row}

\* a save replaced the differing row of one keyword and kept the row of a
\* keyword that was not incoming
C10_Witness ==
    /\ save_outcome = "saved"
    /\ save_loaded
    /\ \E k \in DOMAIN save_incoming :
          /\ RowsFor(save_before, k) # {}
          /\ RowsFor(save_before, k) # {TableRow(k, save_incoming[k])}
    /\ \E k \in StoredKeywords(save_before) \ DOMAIN save_incoming :
          RowsFor(excel, k) = RowsFor(save_before, k)

----------------------------------------------------------------------------
(* Claims about main and get_keyword_analysis_with_save *)

\* the tier of a computed keyword under the loaded configuration
ComputedStage(k) ==
    get_keyword_stage(blog_stages_config, analysis_result[k]["blog_count"],
                      analysis_result[k]["total_search_volume"])

\* the metrics computed for k are in the stored table
MetricsStored(k) ==
    \E row \in RowsFor(excel, k) :
        /\ row.pc = analysis_result[k]["pc_search_volume"]
        /\ row.mobile = analysis_result[k]["mobile_search_volume"]
        /\ row.total = analysis_result[k]["total_search_volume"]
        /\ row.blog_count = analysis_result[k]["blog_count"]
        /\ row.ratio = analysis_result[k]["competition_ratio"]

ExitedAfterInterruptInLoop == ppc = "exit" /\ interrupted_in = "analyze"

C9_InterruptExitsNonZero ==
    (ppc = "exit" /\ interrupts_in_analysis > 0) =>
        (exit_status # 0 /\ ~main_has_result)

----------------------------------------------------------------------------
(* Further claims about save_to_excel *)

RatioAscending(rows) ==
    \A i \in 1..(Len(rows) - 1) : rows[i].ratio <= rows[i + 1].ratio

\* C11: after every successful save_to_excel call, in any sequence of
\* saves, the stored table is the full merged table (the rows the store
\* held before and the incoming rows, a purged tier-0 row aside) and its
\* rows are in non-decreasing order of ratio.
C11_FullTableSorted ==
    save_outcome = "saved" =>
        /\ RatioAscending(excel.rows)
        /\ \A k \in DOMAIN save_incoming : RowsFor(excel, k) # {}
        /\ \A k \in StoredKeywords(save_before) :
              (\E row \in RowsFor(save_before, k) : ~PurgeApplies(row)) =>
                  RowsFor(excel, k) # {}

----------------------------------------------------------------------------
(* Claims about the two analyzers and get_search_volume *)

AnalyzersReturned == ppc = "done"

Absent(k) == CleanKeyword(k) \notin DOMAIN search_volume_result

C13_BatchesOfFive ==
    /\ \A n \in 1..Len(volume_calls) :
          LET call == volume_calls[n]
          IN /\ Len(call.batch) <= 5
             /\ Len(call.batch) >= 1
             /\ call.start = (IF n = 1 THEN 0
                              ELSE volume_calls[n - 1].start + Len(volume_calls[n - 1].batch))
             /\ call.batch = SubSeq(keywords, call.start + 1, call.start + Len(call.batch))
    /\ (ppc # "volume" /\ ppc # "idle" /\ keywords # <<>>) =>
          /\ volume_calls # <<>>
          /\ LET last == volume_calls[Len(volume_calls)]
             IN last.start + Len(last.batch) = Len(keywords)

\* get_search_volume returned after a full batch and a second, shorter one
C13_Witness ==
    /\ ppc = "analyze"
    /\ Len(keywords) > 5
    /\ Len(volume_calls) = 2
    /\ Len(volume_calls[1].batch) = 5

\* the lookup that the calls made so far give: the results of those that
\* did not fail, merged in call order
RECURSIVE MergedResults(_, _)
MergedResults(calls, n) ==
    IF n = 0 THEN EmptyDict
    ELSE IF calls[n].raised THEN MergedResults(calls, n - 1)
    ELSE Update(MergedResults(calls, n - 1), calls[n].result)

NumberOfBatches == (Len(keywords) + 4) \div 5

\* C14: a failing oracle call is never fatal. A volume batch call that
\* fails contributes no entries to the lookup and every batch of the list,
\* the later ones included, is still queried; a document-count call that
\* fails gives the count 0 and the analysis goes on to the next keyword, so
\* both analyzers return.
C14_OracleFailureNotFatal ==
    /\ ppc # "idle" =>
          search_volume_result = MergedResults(volume_calls, Len(volume_calls))
    /\ (ppc # "volume" /\ ppc # "idle") => Len(volume_calls) = NumberOfBatches
    /\ AnalyzersReturned =>
          /\ DOMAIN analysis_result = Range(keywords)
          /\ \A k \in Range(keywords) :
                blog_oracle[k].failed => analysis_result[k]["blog_count"] = 0
          /\ \A k \in DOMAIN strict_result :
                blog_oracle[k].failed => strict_result[k]["blog_count"] = 0

\* both analyzers returned although the first volume batch call failed, a
\* later one answered, and a document-count call failed for a keyword that
\* was followed by another
C14_Witness ==
    /\ AnalyzersReturned
    /\ Len(volume_calls) >= 2
    /\ volume_calls[1].raised
    /\ ~volume_calls[2].raised
    /\ volume_calls[2].result # EmptyDict
    /\ \E i \in 1..(Len(keywords) - 1) :
          /\ blog_oracle[keywords[i]].failed
          /\ keywords[i + 1] \in DOMAIN strict_result

IsLessThanNotation(volume_str) ==
    /\ "str" \in DOMAIN volume_str
    /\ volume_str["str"] # <<>>
    /\ Head(volume_str["str"]) = "<"

NormalizedToFive(result, k) ==
    LET reported == search_volume_result[CleanKeyword(k)]
    IN /\ IsLessThanNotation(reported["pc_search_volume"]) =>
              result[k]["pc_search_volume"] = 5
       /\ IsLessThanNotation(reported["mobile_search_volume"]) =>
              result[k]["mobile_search_volume"] = 5

\* C20: a volume that the oracle reports in less-than notation (a string
\* beginning with '<', such as "< 10") is the integer 5 in the row of either
\* analyzer.
C20_LessThanIsFive ==
    (ppc \in {"analyze", "analyze_strict", "done"}) =>
        /\ \A k \in DOMAIN analysis_result : ~Absent(k) => NormalizedToFive(analysis_result, k)
        /\ \A k \in DOMAIN strict_result : NormalizedToFive(strict_result, k)

\* both analyzers have a row whose mobile volume was reported as "< 10"
C20_Witness ==
    /\ AnalyzersReturned
    /\ \E k \in DOMAIN strict_result :
          /\ search_volume_result[CleanKeyword(k)]["mobile_search_volume"]
                = StrVolume(<<"<", " ", "1", "0">>)
          /\ strict_result[k]["mobile_search_volume"] = 5
          /\ analysis_result[k]["mobile_search_volume"] = 5

\* the keywords of the table the latest call found that have a tier-0 row
\* and are not in the incoming mapping
UnclassifiedNotIncoming ==
    {k \in StoredKeywords(save_before) \ DOMAIN save_incoming :
        \E row \in RowsFor(save_before, k) : row.stage <= 0}

----------------------------------------------------------------------------
(* Further claims about get_keyword_stage *)

ConfigMissing ==
    blog_stages_config = EmptyDict \/ "blog_stages" \notin DOMAIN blog_stages_config

\* C18: when the loaded configuration is empty or has no 'blog_stages'
\* table, get_keyword_stage returns 0 for every (doc_count, total_search).
C18_MissingConfigGivesZero ==
    (Classified /\ ConfigMissing) => keyword_stage = 0

\* a pair with a positive volume not below the document count was
\* classified under an empty configuration
C18_Witness ==
    /\ Classified
    /\ blog_stages_config = EmptyDict
    /\ total_search >= doc_count
    /\ total_search > 0
    /\ keyword_stage = 0

----------------------------------------------------------------------------
(* Claims about the background mode *)

\* C17: in background mode at most one run_single_analysis is in progress
\* at any time, only the worker thread starts one, and every cycle after
\* the first starts after the run of the previous one has returned and a
\* wait has passed.
C17_OneRunAtATime ==
    /\ runs_in_progress <= 1
    /\ run_starters \subseteq {"worker"}
    /\ waits_completed >= cycle_count - 1
    /\ worker_thread = "run" <=> runs_in_progress = 1

\* the worker is in the run of its second cycle while the main thread
\* waits in join
C17_Witness ==
    /\ main_thread = "join"
    /\ worker_thread = "run"
    /\ cycle_count = 2
    /\ runs_in_progress = 1
    /\ waits_completed = 1

----------------------------------------------------------------------------
(* Claims about the usage cache of expand.py *)

\* C19: once a run of collect_keywords_for_subject has recorded a
\* successful expansion for a seed, get_available_afw_keywords never reports
\* that seed as available again, whatever was recorded for it before.
C19_UsedSeedNeverAvailable ==
    \A k \in recorded_success : ~Available(cache_file, k)

----------------------------------------------------------------------------
(* Further claims about main *)

\* C15: if save_to_excel raises in the final persistence step of main, the
\* failure reaches the orchestrator and the exit status is non-zero.
C15_FailedFinalSaveExitsNonZero ==
    (ppc = "exit" /\ interrupted_in = "none" /\ final_save = "raised") =>
        exit_status # 0

\* an oracle call that returned a response was made in this step
OracleAnswered == total_processed' = total_processed + 1 /\ epc' # "raised"

CounterFollowsResponses ==
    /\ OracleAnswered /\ last_response' = <<>> =>
           consecutive_empty_results' = consecutive_empty_results + 1
    /\ OracleAnswered /\ last_response' # <<>> =>
           consecutive_empty_results' = 0
    /\ ~OracleAnswered =>
           consecutive_empty_results' = consecutive_empty_results
    /\ consecutive_empty_results = max_empty_tolerance =>
           total_processed' = total_processed

CounterBounded ==
    /\ consecutive_empty_results \in 0..max_empty_tolerance
    /\ consecutive_empty_results = max_empty_tolerance =>
           Returned /\ exit_by = "circuit_breaker"

\* C22: consecutive_empty_results counts the most recent oracle responses in
\* a row that were empty: each empty response adds one, any response with at
\* least one keyword resets it to 0 (whether or not a keyword was new), no
\* other step changes it, it never exceeds max_empty_tolerance, and once it
\* reaches max_empty_tolerance the loop has ended and no oracle call follows.
C22_CounterCountsTrailingEmpties ==
    [](CounterBounded) /\ [][CounterFollowsResponses]_vars

\* the breaker tripped on the 51st call: the first response held only known
\* keywords and reset nothing to count, the next 50 were empty
C22_Witness ==
    /\ Returned
    /\ exit_by = "circuit_breaker"
    /\ consecutive_empty_results = max_empty_tolerance
    /\ total_processed = max_empty_tolerance + 1

RECURSIVE SumOver(_, _)
SumOver(f, S) ==
    IF S = {} THEN 0
    ELSE LET x == CHOOSE y \in S : TRUE IN f[x] + SumOver(f, S \ {x})

OracleCallCount == SumOver(oracle_calls, DOMAIN oracle_calls)

\* C23: one call of expand_keywords_recursive makes at most max_keywords
\* calls of get_naver_autocomplete.
C23_CallsWithinLimit == OracleCallCount <= max_keywords

\* a run that queried every keyword it could: one call fewer than the limit
C23_Witness ==
    /\ Returned
    /\ max_keywords >= 3
    /\ OracleCallCount = max_keywords - 1

ScenarioRun ==
    /\ <<seed_keywords, max_keywords>> = ScenarioInput
    /\ as_scripted
    /\ Returned
    /\ exit_by # "interrupt_in_pause"

ScenarioResult ==
    /\ all_keywords = {1, 2, 3}
    /\ OracleCallCount = 3
    /\ exit_by = "queue_empty"

\* C28: with the one seed, the oracle that answers the seed with two new
\* keywords and every other keyword with an empty list, and a limit of 10,
\* an uninterrupted expand_keywords_recursive returns exactly the seed and
\* the two keywords, after three oracle calls, because the queue is empty.
C28_WorkedExample == ScenarioRun => ScenarioResult

\* the worked example ran to its end
C28_Witness == ScenarioRun /\ ScenarioResult /\ consecutive_empty_results = 2

InterruptedInPause == exit_by = "interrupt_in_pause"

HandedToAnalysis ==
    /\ ppc = "volume"
    /\ Range(keywords) = all_keywords
    /\ Len(keywords) = Cardinality(all_keywords)
    /\ exit_status = -1

\* C29: a KeyboardInterrupt during the pause between oracle calls does not
\* leave expand_keywords_recursive as an exception: the function returns the
\* pool found so far, and main hands exactly that pool to the analysis.
C29_PauseInterruptContinues ==
    InterruptedInPause =>
        /\ Returned
        /\ ppc # "idle" => HandedToAnalysis

\* main reached the analysis with a pool cut short by the interrupt
C29_Witness ==
    /\ InterruptedInPause
    /\ HandedToAnalysis
    /\ queue # <<>>
    /\ Cardinality(all_keywords) < max_keywords

StageTable ==
    IF blog_stages_config # EmptyDict /\ "blog_stages" \in DOMAIN blog_stages_config
      THEN blog_stages_config["blog_stages"] ELSE EmptyDict

\* the rule of tier k is present and matches the two counts
RuleMatches(k) ==
    /\ InBounds(k)
    /\ k >= 2 => total_search >= doc_count

\* C24: get_keyword_stage returns the smallest tier in 1..5 whose rule is
\* present and matches, or 0 when there is none; an absent rule never matches
\* and does not end the scan; the result is in 0..5.
C24_SmallestMatchingTier ==
    spc = "done" =>
        /\ keyword_stage \in 0..5
        /\ keyword_stage = 0 => \A k \in 1..5 : ~RuleMatches(k)
        /\ keyword_stage # 0 =>
               /\ RuleMatches(keyword_stage)
               /\ \A k \in 1..(keyword_stage - 1) : ~RuleMatches(k)

\* a tier found behind an absent rule and behind a present rule that fails
C24_Witness ==
    /\ spc = "done"
    /\ keyword_stage >= 3
    /\ \E j \in 1..(keyword_stage - 1) : StageKey(j) \notin DOMAIN StageTable
    /\ \E j \in 1..(keyword_stage - 1) : StageKey(j) \in DOMAIN StageTable

OneRowPerKeyword(file) ==
    \A i, j \in 1..Len(file.rows) :
        file.rows[i].keyword = file.rows[j].keyword => i = j

\* C30: after every successful save_to_excel call the stored table holds at
\* most one row per keyword, and when the purge of unclassified rows is off
\* (MODE # "AUTO") its keywords are exactly the keywords stored before the
\* call together with the incoming keywords.
C30_OneRowAndNothingLost ==
    save_outcome = "saved" =>
        /\ OneRowPerKeyword(excel)
        /\ MODE # "AUTO" =>
               StoredKeywords(excel) = StoredKeywords(save_before) \cup DOMAIN save_incoming

----------------------------------------------------------------------------
(* Claims about filter_keywords_by_target_stages *)

\* a row without the 'stage' the filter stores into it
Unannotated(stats) == [f \in DOMAIN stats \ {"stage"} |-> stats[f]]

\* the input keywords whose tier is in target_stages, each row with its tier
RowsOfTargetTiers ==
    [k \in {x \in DOMAIN analysis_result : ComputedStage(x) \in target_stages} |->
        WithStage(Unannotated(analysis_result[k]), ComputedStage(k))]

NoUnclassifiedRow(mapping) == \A k \in DOMAIN mapping : mapping[k]["stage"] # 0

----------------------------------------------------------------------------
(* Further claims about the two analyzers *)

IsNotWhitespace(c) == c \notin Whitespace

\* the keyword without its whitespace
WithoutWhitespace(keyword) == SelectSeq(keyword, IsNotWhitespace)

\* the row of original keyword k carries the volumes of the lookup entry of
\* its cleaned form and the document count asked for k itself
RowFromLookup(row, k) ==
    LET entry == search_volume_result[WithoutWhitespace(k)]
    IN /\ row["pc_search_volume"] = parse_volume(entry["pc_search_volume"])
       /\ row["mobile_search_volume"] = parse_volume(entry["mobile_search_volume"])
       /\ row["blog_count"] = get_blog_count(blog_oracle[k])

----------------------------------------------------------------------------
(* Claims about the progressive save of get_keyword_analysis_with_save *)

\* the number of batches that are through when n of the keywords are analysed
CompletedBatches(n) ==
    IF n = Len(keywords) THEN (n + batch_size - 1) \div batch_size
    ELSE n \div batch_size

BetweenBatches == ppc \in {"analyze", "after_analysis"}

\* keyword k is in the stored table with its metrics and its tier
StoredWithTier(k) ==
    RowsFor(excel, k) = {TableRow(k, WithStage(analysis_result[k], ComputedStage(k)))}

\* the mapping holds every listed keyword with the metrics of its analysis
CompleteMapping ==
    /\ DOMAIN analysis_result = Range(keywords)
    /\ \A k \in DOMAIN analysis_result :
          Unannotated(analysis_result[k]) =
              AnalyzeOne(k, search_volume_result, analysis_result[k]["blog_count"])

\* C27: get_keyword_analysis_with_save calls _save_intermediate_results once
\* for every completed batch of batch_size keywords (the last batch may be
\* shorter); after such a save has succeeded the stored table holds every
\* keyword analysed so far whose tier is in TARGET_STAGES; and whether or not
\* an intermediate save failed, a run without an operator interrupt returns
\* the mapping of all listed keywords with their metrics.
C27_ProgressiveSave ==
    /\ BetweenBatches =>
          /\ Len(intermediate_saves) = CompletedBatches(global_i)
          /\ \A i \in 1..Len(intermediate_saves) :
                intermediate_saves[i].upto =
                    IF i * batch_size <= Len(keywords) THEN i * batch_size ELSE Len(keywords)
    /\ (ppc \in {"analyze", "intermediate_save", "after_analysis"}
            /\ intermediate_saves # <<>>
            /\ intermediate_saves[Len(intermediate_saves)].outcome = "saved") =>
          \A i \in 1..intermediate_saves[Len(intermediate_saves)].upto :
              ComputedStage(keywords[i]) \in TARGET_STAGES => StoredWithTier(keywords[i])
    /\ (ppc \in {"after_analysis", "exit"} /\ interrupted_in = "none") =>
          main_has_result /\ CompleteMapping

\* the save after the first batch of batch_size keywords failed, the analysis
\* went on, the save after the second batch succeeded and the table holds a
\* keyword of each batch
C27_Witness ==
    /\ ppc = "after_analysis"
    /\ interrupts_in_analysis = 0
    /\ Len(intermediate_saves) = 2
    /\ intermediate_saves[1] = [upto |-> batch_size, outcome |-> "raised"]
    /\ intermediate_saves[2].outcome = "saved"
    /\ StoredWithTier(keywords[1])
    /\ StoredWithTier(keywords[Len(keywords)])
    /\ CompleteMapping

----------------------------------------------------------------------------
(* Further claims about the background mode *)

ExitedWhileAnalysing == main_thread = "exited" /\ exit_during = "analyze"

\* C21: when the operator interrupts the background mode while a run is
\* analysing keywords, the metrics the run has computed so far for keywords
\* of the target tiers are in the store when the process has exited.
C21_ComputedMetricsPersisted ==
    ExitedWhileAnalysing => run_stored = run_targets

============================================================================
